---- MODULE Spec2Model ----
(***************************************************************************)
(* A model of Lempicka Smart Sync: the sync engine of src/src/core/sync.js *)
(* (copy transaction, recovery journal, runner, resume), its planner       *)
(* buildComparePlan, and the ipc control surface of src/src/main.js.       *)
(*                                                                         *)
(* An action is the code that runs between two awaits of the JavaScript    *)
(* source; a state is the program suspended at an await.  The disk (the    *)
(* destination files, the temporary backups, the journal file, the history *)
(* log) survives a process stop; everything else is process memory.        *)
(***************************************************************************)
EXTENDS Integers, Sequences, FiniteSets, TLC

(***************************************************************************)
(* Bounds of the model and constants of the program.                       *)
(***************************************************************************)
\* Size of every source file of the plan, in chunks of the copy buffer.
FileChunks == 2
\* Filesystem calls the environment may fail in one behaviour.
MaxFaults == 1
\* Further failing filesystem calls in a behaviour of the retry specification.
RetryFaults == 2
\* Process stops in one behaviour.
MaxCrashes == 1
\* Calls of resumeSyncFromJournal in one behaviour.
MaxResumes == 1

DEFAULT_RETRY_COUNT == 2
DEFAULT_MAX_PARALLEL_SMALL_FILES == 3

\* The plan handed to syncPlan, sorted by targetRelativePath (the two-file
\* plan of test/sync.test.js "sync recovery journal can resume ...").
PlanTargets == <<"one.txt", "two.txt">>
Targets == {PlanTargets[i] : i \in 1..Len(PlanTargets)}
Workers == 1..DEFAULT_MAX_PARALLEL_SMALL_FILES

\* Error codes: the two raw filesystem codes the environment injects (one of
\* RECOVERABLE_FS_CODES, one not) and the TreeSyncError codes of the engine.
RECOVERABLE_FS_CODES == {"EBUSY", "EMFILE", "ENFILE", "EIO", "ENOENT", "ENOTCONN", "EAGAIN", "ETIMEDOUT"}
InjectedCodes == {"EIO", "ENOSPC"}

(***************************************************************************)
(* File contents.  A file is <<kind, size>>: no file, the destination's    *)
(* content from before the sync, a path that is not a regular file, or the *)
(* first k chunks of the source.                                           *)
(***************************************************************************)
NoFile == <<"none", 0>>
OldFile == <<"old", 1>>
NotAFile == <<"dir", 0>>
SourcePrefix(k) == <<"src", k>>
FullCopy == SourcePrefix(FileChunks)
IsRegularFile(c) == c[1] \in {"old", "src"}
FileSize(c) == c[2]
sourceSize(t) == FileChunks

\* activeEntries[t]: no entry, an entry with backupPath '', an entry with the
\* path of the backup file.
NotActive == "-"
NoBackupPath == ""
BackupPathOf == "B"
\* A backupPath made by makeTemporaryBackupPath at which no file was created.
UnmadeBackupPath == "X"

VARIABLES
  \* ---- disk
  dst,            \* destination file at each targetPath
  bak,            \* temporary backup file of each target
  journalFile,    \* the journal at journalPath
  logLines,       \* lines of sync-history.log, per target
  \* ---- options of the call
  continueOnError,
  maxParallelSmallFiles,
  targetPath,     \* item.targetPath of each plan item, as path components
  largeFiles,     \* the plan items whose sourceSize exceeds smallFileThresholdBytes
  cancel,         \* what shouldCancel() returns
  pause,          \* what shouldPause() returns
  \* ---- memory of syncPlan / resumeSyncFromJournal
  phase,          \* new | recovering | running | settled | crashed
  journalState,
  queue,          \* plan items not started yet
  total,
  completed,
  succeededFiles,
  failed,
  workerCount,
  abortError,     \* first rejection of the run
  outcome,        \* how the call settled: none | ok | an error code
  resumeFromJournal,
  recoverTodo,    \* entries recoverActiveEntriesFromJournal has yet to visit
  bytesTransferred, \* in chunks: what onChunk has added up in this call
  syncLogWriteChain, \* resolved, or the error its last write rejected with
  partialResult,  \* details.partialResult of the rejection: <<>> or <<buildResult()>>
  largeTodo,      \* largeFiles of the run the last loop has yet to start
  journalWriteChain, \* the workers whose queued journal write is yet to be made
  \* ---- per worker: processItemWithRetryAndFailureHandling
  pc, item, attempt, backupPath, error, chunks,
  retryEvents,    \* 'retrying' events emitted for the item of each worker
  \* ---- environment and history
  faults, crashes, resumes,
  orig,           \* dst before the first run
  prevCopied,     \* items the earlier calls completed (their copied counts)
  destAtStart,    \* whether a regular file was at the target when its last attempt began
  cancelAt,       \* where each worker stood when the cancel flag was set
  cancelSeen,     \* whether a call of shouldCancel() has returned true in this run
  \* ---- buildComparePlan (core/sync.js)
  comparePhase,   \* idle | scanned | resolved | built | done | failed
  leftFiles,      \* walkFiles(leftRoot): entries in enumeration order
  rightSizeByRelativePath,
  rightDirKind,   \* what fs.stat finds at the destination directory "s"
  scanned,        \* entries of leftFiles the resolution loop has visited
  bestByTargetRelativePath,  \* the Map, as its entries in insertion order
  plan,
  directoriesToCreate,
  compareError,
  compareRoots,   \* leftRoot and rightRoot of the call, as path components
  leftTree,       \* the directory entries under leftRoot
  rightTree,      \* the files under rightRoot, scanned or not: path -> size
  syncs,          \* runs of syncPlan that have succeeded on the plan
  parsedFileName, \* the argument of the last call of parseVersionedName
  parsed,         \* and what the call returned
  rightDirs,      \* the directories (and files in their place) under rightRoot: path -> kind
  mkdirDone,      \* entries of directoriesToCreate syncPlan has made
  opened,         \* plan items whose transaction has opened its target
  openError,      \* what the last open of a target threw, or none
  \* ---- file handles (copyFileWithProgress, syncPlan)
  copyStep,       \* where the call stands: new | next | openTarget | loop | settled
  sourceHandle,   \* handles open on source files
  targetHandle,   \* handles open on target files
  syncLogHandle,  \* handles open on sync-history.log
  position,       \* chunks the copy under way has read
  copiesLeft,     \* plan items the loop has yet to copy
  \* ---- the plan argument of syncPlan
  planInput,      \* the value passed as plan
  validation,     \* what the entry of syncPlan made of it
  \* ---- the control surface (main.js)
  appOperation,
  activeSyncSession,
  lastCompareContext,
  nextNonce,      \* distinguishes the tokens createCompareContext makes
  requests        \* the ipc invocations: kind and position of each handler

diskVars == <<dst, bak, journalFile, logLines>>
optVars == <<continueOnError, maxParallelSmallFiles, targetPath, largeFiles, pause>>
runVars == <<phase, journalState, queue, total, completed, succeededFiles, failed,
             workerCount, abortError, outcome, resumeFromJournal, recoverTodo, bytesTransferred, syncLogWriteChain, partialResult, largeTodo, journalWriteChain>>
workerVars == <<pc, item, attempt, retryEvents, backupPath, error, chunks>>
envVars == <<faults, crashes, resumes, orig, prevCopied, destAtStart, cancelAt, cancelSeen>>
engineVars == <<diskVars, optVars, cancel, runVars, workerVars, envVars>>
parseVars == <<parsedFileName, parsed>>
dirVars == <<rightDirs, mkdirDone, opened, openError>>
handleVars == <<copyStep, sourceHandle, targetHandle, syncLogHandle, position, copiesLeft>>
inputVars == <<planInput, validation>>
sideVars == <<handleVars, inputVars>>
scanVars == <<compareRoots, leftTree, rightTree, syncs, parseVars, dirVars, sideVars>>
plannerVars == <<comparePhase, leftFiles, rightSizeByRelativePath, rightDirKind, scanned,
                 bestByTargetRelativePath, plan, directoriesToCreate, compareError,
                 scanVars>>
controlVars == <<appOperation, activeSyncSession, lastCompareContext, nextNonce, requests>>
\* What the copy engine never writes: the options of the call and the other parts.
fixedVars == <<optVars, plannerVars, controlVars>>

vars == <<engineVars, plannerVars, controlVars>>

(***************************************************************************)
(* The journal.                                                            *)
(***************************************************************************)
NoEntries == [t \in Targets |-> NotActive]

JournalAbsent ==
  [present |-> FALSE, completedTargetPaths |-> {}, failed |-> {}, activeEntries |-> NoEntries]

createInitialJournalState ==
  [present |-> TRUE, completedTargetPaths |-> {}, failed |-> {}, activeEntries |-> NoEntries]

\* journalSummaryFromState(state).pendingCount
pendingCount(state) ==
  Cardinality({t \in Targets : t \notin state.completedTargetPaths})

SeqToSet(s) == {s[i] : i \in 1..Len(s)}

\* The filter with its test dropped: every plan item is kept.
FilterNotIn_KeepsCompleted(s, done) == s

\* plan.filter(item => !completedSet.has(item.targetPath))
RECURSIVE FilterNotIn(_, _)
FilterNotIn(s, done) ==
  IF s = <<>> THEN <<>>
  ELSE IF Head(s) \in done THEN FilterNotIn(Tail(s), done)
       ELSE <<Head(s)>> \o FilterNotIn(Tail(s), done)

remainingPlan(state) == FilterNotIn(PlanTargets, state.completedTargetPaths)

isRecoverableFilesystemError(e) == e \in RECOVERABLE_FS_CODES

Min(a, b) == IF a < b THEN a ELSE b
Max(a, b) == IF a > b THEN a ELSE b

(***************************************************************************)
(* Initial state: the destination before the first run, the options.       *)
(***************************************************************************)
NoWorker == [w \in Workers |-> "off"]
NoCancelAt == [w \in Workers |-> <<"off", "-", NoBackupPath>>]

\* Everything but the options of the call and the destination tree.
InitRun ==
  /\ bak = [t \in Targets |-> NoFile]
  /\ journalFile = JournalAbsent
  /\ logLines = [t \in Targets |-> 0]
  /\ cancel = FALSE
  /\ phase = "new"
  /\ journalState = JournalAbsent
  /\ queue = <<>>
  /\ total = 0
  /\ completed = 0
  /\ succeededFiles = <<>>
  /\ failed = <<>>
  /\ workerCount = 0
  /\ abortError = "none"
  /\ outcome = "none"
  /\ resumeFromJournal = FALSE
  /\ recoverTodo = <<>>
  /\ bytesTransferred = 0
  /\ syncLogWriteChain = "resolved"
  /\ partialResult = <<>>
  /\ largeTodo = <<>>
  /\ journalWriteChain = <<>>
  /\ pc = NoWorker
  /\ item = [w \in Workers |-> "-"]
  /\ attempt = [w \in Workers |-> 0]
  /\ retryEvents = [w \in Workers |-> 0]
  /\ backupPath = [w \in Workers |-> NoBackupPath]
  /\ error = [w \in Workers |-> "none"]
  /\ chunks = [w \in Workers |-> 0]
  /\ crashes = 0
  /\ resumes = 0
  /\ prevCopied = 0
  /\ destAtStart = [t \in Targets |-> FALSE]
  /\ cancelAt = NoCancelAt
  /\ cancelSeen = FALSE

\* options.rightRoot, and the plan buildComparePlan makes for it:
\* targetPath: path.join(rightRoot, targetRelativePath).
rightRoot == <<"right">>
planOfCompare == [t \in Targets |-> rightRoot \o <<t>>]

\* A call with maxParallelSmallFiles 1: the sequential loop.
InitEngine ==
  /\ dst \in [Targets -> {NoFile, OldFile, NotAFile}]
  /\ orig = dst
  /\ continueOnError \in BOOLEAN
  /\ maxParallelSmallFiles = 1
  /\ targetPath = planOfCompare
  /\ largeFiles = {}
  /\ pause = FALSE
  /\ faults = 0
  /\ InitRun

\* A caller's plan: the first item's targetPath is the planner's, a path
\* beside rightRoot, or a path that leaves rightRoot through "..".
callerPlans ==
  {[planOfCompare EXCEPT ![PlanTargets[1]] = p] :
     p \in {rightRoot \o <<PlanTargets[1]>>,
            <<"other", PlanTargets[1]>>,
            rightRoot \o <<"..", "other", PlanTargets[1]>>}}

InitCallerPlan ==
  /\ dst \in [Targets -> {NoFile, OldFile, NotAFile}]
  /\ orig = dst
  /\ continueOnError \in BOOLEAN
  /\ maxParallelSmallFiles = 1
  /\ targetPath \in callerPlans
  /\ largeFiles = {}
  /\ pause = FALSE
  /\ faults = 0
  /\ InitRun

\* The call main.js makes: continueOnError true, maxParallelSmallFiles 3; no
\* call of the filesystem fails while the pool runs.
PoolDestinations ==
  {[t \in Targets |-> IF t = PlanTargets[1] THEN OldFile ELSE c] :
     c \in {NoFile, OldFile, NotAFile}}

InitPool ==
  /\ dst \in PoolDestinations
  /\ orig = dst
  /\ continueOnError = TRUE
  /\ maxParallelSmallFiles = DEFAULT_MAX_PARALLEL_SMALL_FILES
  /\ targetPath = planOfCompare
  /\ largeFiles = {}
  /\ pause = FALSE
  /\ faults = MaxFaults
  /\ InitRun

(***************************************************************************)
(* syncPlan: setup, up to the first item.                                  *)
(***************************************************************************)
\* The worker count without its test of continueOnError.
computeWorkerCount_IgnoresMode(n) ==
  Max(1, Min(maxParallelSmallFiles, IF n = 0 THEN 1 ELSE n))

\* workerCount of syncPlan, for a pending plan of n small files.
computeWorkerCount(n) ==
  IF continueOnError /\ maxParallelSmallFiles > 1
  THEN Max(1, Min(maxParallelSmallFiles, IF n = 0 THEN 1 ELSE n))
  ELSE 1

\* pendingPlan, smallFiles and largeFiles of syncPlan.
pendingPlan(normalizedPlan, state) ==
  FilterNotIn(normalizedPlan, state.completedTargetPaths)
smallFilesOf(pending) == FilterNotIn(pending, largeFiles)
largeFilesOf(pending) == FilterNotIn(pending, SeqToSet(pending) \ largeFiles)

\* The body of syncPlan from its entry to the start of the item loops, for the
\* plan `plan` and the journal state `state` (a fresh one, or the one resume read).
SyncPlanBegin(normalizedPlan, state, resumed) ==
  /\ journalState' = state
  /\ journalFile' = state
  /\ total' = Len(normalizedPlan)
  /\ completed' = 0
  /\ succeededFiles' = <<>>
  /\ failed' = <<>>
  /\ queue' = smallFilesOf(pendingPlan(normalizedPlan, state))
  /\ largeTodo' = largeFilesOf(pendingPlan(normalizedPlan, state))
  /\ journalWriteChain' = <<>>
  /\ workerCount' = computeWorkerCount(Len(smallFilesOf(pendingPlan(normalizedPlan, state))))
  /\ pc' = [w \in Workers |->
              IF w <= computeWorkerCount(Len(smallFilesOf(pendingPlan(normalizedPlan, state))))
              THEN "idle" ELSE "off"]
  /\ item' = [w \in Workers |-> "-"]
  /\ attempt' = [w \in Workers |-> 0]
  /\ retryEvents' = [w \in Workers |-> 0]
  /\ backupPath' = [w \in Workers |-> NoBackupPath]
  /\ error' = [w \in Workers |-> "none"]
  /\ chunks' = [w \in Workers |-> 0]
  /\ abortError' = "none"
  /\ outcome' = "none"
  /\ resumeFromJournal' = resumed
  /\ bytesTransferred' = 0
  /\ syncLogWriteChain' = "resolved"
  /\ partialResult' = <<>>
  /\ phase' = "running"

StartSync ==
  /\ phase = "new"
  /\ SyncPlanBegin(PlanTargets, createInitialJournalState, FALSE)
  /\ UNCHANGED <<dst, bak, logLines, fixedVars, cancel, recoverTodo, envVars>>

\* fs.open(syncLogPath, 'a') throws: syncPlan rejects with SYNC_LOG_ERROR and
\* details {completed, total, logPath, fsCode}; the first journal write has
\* been made, the try block of the item loops is not entered.
SyncLogOpenFails ==
  /\ phase = "new" /\ faults < MaxFaults
  /\ faults' = faults + 1
  /\ journalState' = createInitialJournalState
  /\ journalFile' = createInitialJournalState
  /\ total' = Len(PlanTargets)
  /\ outcome' = "SYNC_LOG_ERROR"
  /\ partialResult' = <<>>
  /\ phase' = "settled"
  /\ UNCHANGED <<dst, bak, logLines, fixedVars, cancel, workerVars>>
  /\ UNCHANGED <<queue, completed, succeededFiles, failed, workerCount, abortError,
                 resumeFromJournal, recoverTodo, bytesTransferred, syncLogWriteChain, largeTodo, journalWriteChain>>
  /\ UNCHANGED <<crashes, resumes, orig, prevCopied, destAtStart, cancelAt, cancelSeen>>

\* The live process: workers run while syncPlan runs and, in the pool, after
\* Promise.all has rejected.
Alive == phase \in {"running", "settled"}

\* A worker's promise rejects with `code`; Promise.all keeps the first.
Reject(w, code) ==
  /\ pc' = [pc EXCEPT ![w] = "rejected"]
  /\ abortError' = IF abortError = "none" THEN code ELSE abortError

\* queueJournalWrite: the journal file takes the state as mutated.
WriteJournal(state) ==
  /\ journalState' = state
  /\ journalFile' = state

(***************************************************************************)
(* The item loop of a worker (the sequential for-loop is the pool of one). *)
(***************************************************************************)
\* A wait that returns at once, paused or not.
waitForUnpaused_Returns == TRUE

\* The flag never read as false: waitForUnpaused ends only by cancellation.
waitForUnpaused_Blocks == FALSE

\* waitForUnpaused returns (without a throw) once shouldPause() is false.
waitForUnpaused == ~pause

\* The loop's cancel check: the run is cancelled before the next item starts.
NextItemCancelled(w) ==
  /\ Alive /\ pc[w] = "idle" /\ queue # <<>> /\ cancel
  /\ Reject(w, "SYNC_CANCELLED")
  /\ cancelSeen' = TRUE
  /\ UNCHANGED <<diskVars, fixedVars, cancel, faults, crashes, resumes, orig, prevCopied, destAtStart, cancelAt>>
  /\ UNCHANGED <<phase, journalState, queue, total, completed, succeededFiles, failed,
                 workerCount, outcome, resumeFromJournal, recoverTodo, bytesTransferred, syncLogWriteChain, partialResult, largeTodo, journalWriteChain>>
  /\ UNCHANGED <<item, attempt, retryEvents, backupPath, error, chunks>>

NextItem(w) ==
  /\ Alive /\ pc[w] = "idle" /\ queue # <<>> /\ ~cancel
  /\ item' = [item EXCEPT ![w] = Head(queue)]
  /\ queue' = Tail(queue)
  /\ attempt' = [attempt EXCEPT ![w] = 0]
  /\ retryEvents' = [retryEvents EXCEPT ![w] = 0]
  /\ error' = [error EXCEPT ![w] = "none"]
  /\ pc' = [pc EXCEPT ![w] = "begin"]
  /\ UNCHANGED <<diskVars, fixedVars, cancel, envVars, backupPath, chunks>>
  /\ UNCHANGED <<phase, journalState, total, completed, succeededFiles, failed,
                 workerCount, abortError, outcome, resumeFromJournal, recoverTodo, bytesTransferred, syncLogWriteChain, partialResult, largeTodo, journalWriteChain>>

WorkerResolve(w) ==
  /\ Alive /\ pc[w] = "idle" /\ queue = <<>>
  /\ pc' = [pc EXCEPT ![w] = "resolved"]
  /\ UNCHANGED <<diskVars, fixedVars, cancel, runVars, envVars>>
  /\ UNCHANGED <<item, attempt, retryEvents, backupPath, error, chunks>>

\* for (const item of largeFiles): the loop syncPlan enters once the loop or
\* the pool of the small files has ended without a throw; it runs the large
\* files one at a time, as the sequential loop does.
LargeLoop ==
  /\ phase = "running" /\ abortError = "none"
  /\ \A w \in Workers : w <= workerCount => pc[w] = "resolved"
  /\ largeTodo # <<>>
  /\ queue' = largeTodo
  /\ largeTodo' = <<>>
  /\ pc' = [pc EXCEPT ![1] = "idle"]
  /\ UNCHANGED <<diskVars, fixedVars, cancel, envVars>>
  /\ UNCHANGED <<item, attempt, retryEvents, backupPath, error, chunks>>
  /\ UNCHANGED <<phase, journalState, total, completed, succeededFiles, failed,
                 workerCount, abortError, outcome, resumeFromJournal, recoverTodo,
                 bytesTransferred, syncLogWriteChain, partialResult, journalWriteChain>>

(***************************************************************************)
(* processItemAttempt, one action per await.                               *)
(***************************************************************************)
\* withRetry's and processItemAttempt's cancel checks at the top of an attempt.
BeginCancelled(w) ==
  /\ Alive /\ pc[w] = "begin" /\ cancel
  /\ Reject(w, "SYNC_CANCELLED")
  /\ cancelSeen' = TRUE
  /\ UNCHANGED <<diskVars, fixedVars, cancel, faults, crashes, resumes, orig, prevCopied, destAtStart, cancelAt>>
  /\ UNCHANGED <<phase, journalState, queue, total, completed, succeededFiles, failed,
                 workerCount, outcome, resumeFromJournal, recoverTodo, bytesTransferred, syncLogWriteChain, partialResult, largeTodo, journalWriteChain>>
  /\ UNCHANGED <<item, attempt, retryEvents, backupPath, error, chunks>>

\* The active entry is journalled with backupPath ''.
BeginAttempt(w) ==
  /\ Alive /\ pc[w] = "begin" /\ ~cancel /\ waitForUnpaused
  /\ WriteJournal([journalState EXCEPT !.activeEntries[item[w]] = NoBackupPath])
  /\ backupPath' = [backupPath EXCEPT ![w] = NoBackupPath]
  /\ chunks' = [chunks EXCEPT ![w] = 0]
  /\ pc' = [pc EXCEPT ![w] = "preflight"]
  /\ destAtStart' = [destAtStart EXCEPT ![item[w]] = IsRegularFile(dst[item[w]])]
  /\ UNCHANGED <<dst, bak, logLines, fixedVars, cancel, item, attempt, retryEvents, error>>
  /\ UNCHANGED <<faults, crashes, resumes, orig, prevCopied, cancelAt, cancelSeen>>
  /\ UNCHANGED <<phase, queue, total, completed, succeededFiles, failed,
                 workerCount, abortError, outcome, resumeFromJournal, recoverTodo, bytesTransferred, syncLogWriteChain, partialResult, largeTodo, journalWriteChain>>

\* What stays as it is in a step of worker w that touches neither the journal
\* nor the counters.
WorkerFrame ==
  /\ UNCHANGED <<journalFile, logLines, fixedVars, cancel, runVars, item, attempt, retryEvents>>
  /\ UNCHANGED <<crashes, resumes, orig, prevCopied, destAtStart, cancelAt, cancelSeen>>

\* fs.access(sourcePath, R_OK)
Preflight(w) ==
  /\ Alive /\ pc[w] = "preflight"
  /\ pc' = [pc EXCEPT ![w] = "backup"]
  /\ WorkerFrame
  /\ UNCHANGED <<dst, bak, backupPath, error, chunks, faults>>

PreflightFails(w) ==
  /\ Alive /\ pc[w] = "preflight" /\ faults < MaxFaults
  /\ faults' = faults + 1
  /\ error' = [error EXCEPT ![w] = "SOURCE_UNAVAILABLE"]
  /\ pc' = [pc EXCEPT ![w] = "catch"]
  /\ WorkerFrame
  /\ UNCHANGED <<dst, bak, backupPath, chunks>>

\* fs.stat(targetPath) answers ENOENT.
StatAbsent(w) ==
  /\ Alive /\ pc[w] = "backup" /\ dst[item[w]] = NoFile
  /\ pc' = [pc EXCEPT ![w] = "copy"]
  /\ WorkerFrame
  /\ UNCHANGED <<dst, bak, backupPath, error, chunks, faults>>

StatConflict(w) ==
  /\ Alive /\ pc[w] = "backup" /\ dst[item[w]] = NotAFile
  /\ error' = [error EXCEPT ![w] = "DESTINATION_PATH_CONFLICT"]
  /\ pc' = [pc EXCEPT ![w] = "catch"]
  /\ WorkerFrame
  /\ UNCHANGED <<dst, bak, backupPath, chunks, faults>>

\* backupPath = makeTemporaryBackupPath(...); fs.rename(targetPath, backupPath)
BackupRename(w) ==
  /\ Alive /\ pc[w] = "backup" /\ IsRegularFile(dst[item[w]])
  /\ backupPath' = [backupPath EXCEPT ![w] = BackupPathOf]
  /\ bak' = [bak EXCEPT ![item[w]] = dst[item[w]]]
  /\ dst' = [dst EXCEPT ![item[w]] = NoFile]
  /\ pc' = [pc EXCEPT ![w] = "jbackup"]
  /\ WorkerFrame
  /\ UNCHANGED <<error, chunks, faults>>

\* The rename throws: backupPath is already assigned, no backup file exists.
BackupRenameFails(w) ==
  /\ Alive /\ pc[w] = "backup" /\ IsRegularFile(dst[item[w]]) /\ faults < MaxFaults
  /\ \E code \in InjectedCodes : error' = [error EXCEPT ![w] = code]
  /\ faults' = faults + 1
  /\ backupPath' = [backupPath EXCEPT ![w] = UnmadeBackupPath]
  /\ pc' = [pc EXCEPT ![w] = "catch"]
  /\ WorkerFrame
  /\ UNCHANGED <<dst, bak, chunks>>

\* journalState.activeEntries[t].backupPath = backupPath; queueJournalWrite()
JournalBackup(w) ==
  /\ Alive /\ pc[w] = "jbackup"
  /\ WriteJournal([journalState EXCEPT !.activeEntries[item[w]] = backupPath[w]])
  /\ pc' = [pc EXCEPT ![w] = "copy"]
  /\ UNCHANGED <<dst, bak, logLines, fixedVars, cancel, envVars>>
  /\ UNCHANGED <<item, attempt, retryEvents, backupPath, error, chunks>>
  /\ UNCHANGED <<phase, queue, total, completed, succeededFiles, failed,
                 workerCount, abortError, outcome, resumeFromJournal, recoverTodo, bytesTransferred, syncLogWriteChain, partialResult, largeTodo, journalWriteChain>>

\* copyFileWithProgress: the cancel check and waitForUnpaused, then one chunk
\* read and written.
CopyChunk(w) ==
  /\ Alive /\ pc[w] = "copy" /\ ~cancel /\ waitForUnpaused /\ chunks[w] < sourceSize(item[w])
  /\ chunks' = [chunks EXCEPT ![w] = chunks[w] + 1]
  /\ dst' = [dst EXCEPT ![item[w]] = SourcePrefix(chunks[w] + 1)]
  /\ bytesTransferred' = bytesTransferred + 1
  /\ UNCHANGED <<bak, journalFile, logLines, fixedVars, cancel, envVars, syncLogWriteChain, partialResult, largeTodo, journalWriteChain>>
  /\ UNCHANGED <<phase, journalState, queue, total, completed, succeededFiles, failed,
                 workerCount, abortError, outcome, resumeFromJournal, recoverTodo>>
  /\ UNCHANGED <<item, attempt, retryEvents, backupPath, error, pc>>

\* The last cancel check of the copy, before the read that returns 0 bytes.
CopyLastCheck(w) ==
  /\ Alive /\ pc[w] = "copy" /\ ~cancel /\ waitForUnpaused /\ chunks[w] = sourceSize(item[w])
  /\ pc' = [pc EXCEPT ![w] = "eof"]
  /\ WorkerFrame
  /\ UNCHANGED <<dst, bak, backupPath, error, chunks, faults>>

CopyCancelled(w) ==
  /\ Alive /\ pc[w] = "copy" /\ cancel
  /\ error' = [error EXCEPT ![w] = "SYNC_CANCELLED"]
  /\ pc' = [pc EXCEPT ![w] = "catch"]
  /\ cancelSeen' = TRUE
  /\ UNCHANGED <<diskVars, fixedVars, cancel, runVars, item, attempt, retryEvents, backupPath, chunks>>
  /\ UNCHANGED <<faults, crashes, resumes, orig, prevCopied, destAtStart, cancelAt>>

\* An open, a read or a write of the copy throws.
CopyFails(w) ==
  /\ Alive /\ pc[w] = "copy" /\ faults < MaxFaults
  /\ \E code \in InjectedCodes : error' = [error EXCEPT ![w] = code]
  /\ faults' = faults + 1
  /\ pc' = [pc EXCEPT ![w] = "catch"]
  /\ WorkerFrame
  /\ UNCHANGED <<dst, bak, backupPath, chunks>>

\* The read returns 0 bytes; the handles are closed; tryPreserveCreationDate.
CopyEOF(w) ==
  /\ Alive /\ pc[w] = "eof"
  /\ pc' = [pc EXCEPT ![w] = "cleanup"]
  /\ WorkerFrame
  /\ UNCHANGED <<dst, bak, backupPath, error, chunks, faults>>

\* if (backupPath) fs.unlink(backupPath)
CleanupBackup(w) ==
  /\ Alive /\ pc[w] = "cleanup"
  /\ bak' = IF backupPath[w] = NoBackupPath THEN bak ELSE [bak EXCEPT ![item[w]] = NoFile]
  /\ backupPath' = [backupPath EXCEPT ![w] = NoBackupPath]
  /\ pc' = [pc EXCEPT ![w] = "commit"]
  /\ WorkerFrame
  /\ UNCHANGED <<dst, error, chunks, faults>>

CleanupBackupFails(w) ==
  /\ Alive /\ pc[w] = "cleanup" /\ backupPath[w] # NoBackupPath /\ faults < MaxFaults
  /\ faults' = faults + 1
  /\ error' = [error EXCEPT ![w] = "BACKUP_CLEANUP_FAILED"]
  /\ pc' = [pc EXCEPT ![w] = "catch"]
  /\ WorkerFrame
  /\ UNCHANGED <<dst, bak, backupPath, chunks>>

\* completed += 1; succeededFiles.push; the journal records the completion.
Commit(w) ==
  /\ Alive /\ pc[w] = "commit"
  /\ completed' = completed + 1
  /\ succeededFiles' = Append(succeededFiles, item[w])
  /\ WriteJournal([journalState EXCEPT
                     !.completedTargetPaths = @ \cup {item[w]},
                     !.activeEntries[item[w]] = NotActive])
  /\ pc' = [pc EXCEPT ![w] = "log"]
  /\ UNCHANGED <<dst, bak, logLines, fixedVars, cancel, envVars>>
  /\ UNCHANGED <<item, attempt, retryEvents, backupPath, error, chunks>>
  /\ UNCHANGED <<phase, queue, total, failed,
                 workerCount, abortError, outcome, resumeFromJournal, recoverTodo, bytesTransferred, syncLogWriteChain, partialResult, largeTodo, journalWriteChain>>

\* queueSyncLogWrite(line) while syncLogHandle is open and no write of the
\* chain has failed.
LogWrite(w) ==
  /\ phase = "running" /\ pc[w] = "log" /\ syncLogWriteChain = "resolved"
  /\ logLines' = [logLines EXCEPT ![item[w]] = @ + 1]
  /\ pc' = [pc EXCEPT ![w] = "idle"]
  /\ UNCHANGED <<dst, bak, journalFile, fixedVars, cancel, runVars, envVars>>
  /\ UNCHANGED <<item, attempt, retryEvents, backupPath, error, chunks>>

\* syncLogHandle.write(line) rejects: the chain stays rejected.
LogWriteFails(w) ==
  /\ phase = "running" /\ pc[w] = "log" /\ syncLogWriteChain = "resolved"
  /\ faults < MaxFaults
  /\ \E code \in InjectedCodes :
       /\ error' = [error EXCEPT ![w] = code]
       /\ syncLogWriteChain' = code
  /\ faults' = faults + 1
  /\ pc' = [pc EXCEPT ![w] = "catch"]
  /\ UNCHANGED <<diskVars, fixedVars, cancel, item, attempt, retryEvents, backupPath, chunks>>
  /\ UNCHANGED <<phase, journalState, queue, total, completed, succeededFiles, failed,
                 workerCount, abortError, outcome, resumeFromJournal, recoverTodo,
                 bytesTransferred, partialResult, largeTodo, journalWriteChain>>
  /\ UNCHANGED <<crashes, resumes, orig, prevCopied, destAtStart, cancelAt, cancelSeen>>

\* syncLogWriteChain.then(...) of a rejected chain: rejected with the same
\* error, nothing written.
LogWriteRejected(w) ==
  /\ phase = "running" /\ pc[w] = "log" /\ syncLogWriteChain # "resolved"
  /\ error' = [error EXCEPT ![w] = syncLogWriteChain]
  /\ pc' = [pc EXCEPT ![w] = "catch"]
  /\ WorkerFrame
  /\ UNCHANGED <<dst, bak, backupPath, chunks, faults>>

\* queueSyncLogWrite(line) after syncPlan's finally has closed syncLogHandle:
\* the write rejects.
LogWriteClosed(w) ==
  /\ phase = "settled" /\ pc[w] = "log"
  /\ error' = [error EXCEPT ![w] = "EBADF"]
  /\ pc' = [pc EXCEPT ![w] = "catch"]
  /\ WorkerFrame
  /\ UNCHANGED <<dst, bak, backupPath, chunks, faults>>

(***************************************************************************)
(* The catch block of processItemAttempt.                                  *)
(***************************************************************************)
\* fs.unlink(path), its failure ignored: a regular file goes, anything else stays.
afterUnlink(c) == IF IsRegularFile(c) THEN NoFile ELSE c

\* fs.unlink(targetPath); backupPath is '': nothing to restore.
RollbackNoBackup(w) ==
  /\ Alive /\ pc[w] = "catch" /\ backupPath[w] = NoBackupPath
  /\ dst' = [dst EXCEPT ![item[w]] = afterUnlink(dst[item[w]])]
  /\ pc' = [pc EXCEPT ![w] = "rjournal"]
  /\ WorkerFrame
  /\ UNCHANGED <<bak, backupPath, error, chunks, faults>>

\* The rollback without its rename: the backup is never moved back.
RollbackRestore_SkipsRename(w) ==
  /\ Alive /\ pc[w] = "catch" /\ backupPath[w] = BackupPathOf /\ bak[item[w]] # NoFile
  /\ dst' = [dst EXCEPT ![item[w]] = afterUnlink(dst[item[w]])]
  /\ backupPath' = [backupPath EXCEPT ![w] = NoBackupPath]
  /\ pc' = [pc EXCEPT ![w] = "rjournal"]
  /\ WorkerFrame
  /\ UNCHANGED <<bak, error, chunks, faults>>

\* fs.unlink(targetPath); fs.rename(backupPath, targetPath)
RollbackRestore(w) ==
  /\ Alive /\ pc[w] = "catch" /\ backupPath[w] = BackupPathOf /\ bak[item[w]] # NoFile
  /\ dst' = [dst EXCEPT ![item[w]] = bak[item[w]]]
  /\ bak' = [bak EXCEPT ![item[w]] = NoFile]
  /\ backupPath' = [backupPath EXCEPT ![w] = NoBackupPath]
  /\ pc' = [pc EXCEPT ![w] = "rjournal"]
  /\ WorkerFrame
  /\ UNCHANGED <<error, chunks, faults>>

\* The restoring rename throws (no file at backupPath, or the environment fails
\* it): RESTORE_FAILED leaves the catch block, the active entry stays.
RollbackRestoreFails(w) ==
  /\ Alive /\ pc[w] = "catch" /\ backupPath[w] # NoBackupPath
  /\ \/ /\ backupPath[w] = UnmadeBackupPath \/ bak[item[w]] = NoFile
        /\ faults' = faults
     \/ /\ backupPath[w] = BackupPathOf /\ bak[item[w]] # NoFile /\ faults < MaxFaults
        /\ faults' = faults + 1
  /\ dst' = [dst EXCEPT ![item[w]] = afterUnlink(dst[item[w]])]
  /\ error' = [error EXCEPT ![w] = "RESTORE_FAILED"]
  /\ pc' = [pc EXCEPT ![w] = "thrown"]
  /\ WorkerFrame
  /\ UNCHANGED <<bak, backupPath, chunks>>

\* delete journalState.activeEntries[t]; queueJournalWrite(); the attempt throws
\* SYNC_CANCELLED if it was cancelled or the flag is set, else the error caught.
RollbackJournal(w) ==
  /\ Alive /\ pc[w] = "rjournal"
  /\ WriteJournal([journalState EXCEPT !.activeEntries[item[w]] = NotActive])
  /\ error' = [error EXCEPT ![w] =
                 IF error[w] = "SYNC_CANCELLED" \/ cancel THEN "SYNC_CANCELLED" ELSE error[w]]
  /\ pc' = [pc EXCEPT ![w] = "thrown"]
  /\ cancelSeen' = (cancelSeen \/ (error[w] # "SYNC_CANCELLED" /\ cancel))
  /\ UNCHANGED <<dst, bak, logLines, fixedVars, cancel, faults, crashes, resumes, orig, prevCopied, destAtStart, cancelAt>>
  /\ UNCHANGED <<item, attempt, retryEvents, backupPath, chunks>>
  /\ UNCHANGED <<phase, queue, total, completed, succeededFiles, failed,
                 workerCount, abortError, outcome, resumeFromJournal, recoverTodo, bytesTransferred, syncLogWriteChain, partialResult, largeTodo, journalWriteChain>>

(***************************************************************************)
(* withRetry's catch and processItemWithRetryAndFailureHandling's catch.   *)
(***************************************************************************)
maxRetries == Max(0, DEFAULT_RETRY_COUNT)

\* A variant of withRetry's catch that looks at the error only.
cancelledOrRequested_ErrorOnly(e) == e = "SYNC_CANCELLED"

\* isSyncCancelledError(error) || shouldCancelRequested(shouldCancel)
cancelledOrRequested(e) == e = "SYNC_CANCELLED" \/ cancel

ThrownCancelled(w) ==
  /\ Alive /\ pc[w] = "thrown"
  /\ cancelledOrRequested(error[w])
  /\ Reject(w, "SYNC_CANCELLED")
  /\ cancelSeen' = (cancelSeen \/ error[w] # "SYNC_CANCELLED")
  /\ UNCHANGED <<diskVars, fixedVars, cancel, faults, crashes, resumes, orig, prevCopied, destAtStart, cancelAt>>
  /\ UNCHANGED <<phase, journalState, queue, total, completed, succeededFiles, failed,
                 workerCount, outcome, resumeFromJournal, recoverTodo, bytesTransferred, syncLogWriteChain, partialResult, largeTodo, journalWriteChain>>
  /\ UNCHANGED <<item, attempt, retryEvents, backupPath, error, chunks>>

\* An onRetry that emits nothing.
onRetry_Silent(w) == retryEvents' = retryEvents

\* onRetry: emitProgress('retrying', item, {force: true, retryAttempt}).
onRetry(w) == retryEvents' = [retryEvents EXCEPT ![w] = retryEvents[w] + 1]

\* A recoverable error with retries left: onRetry, sleep, the next attempt.
ThrownRetry(w) ==
  /\ Alive /\ pc[w] = "thrown"
  /\ ~cancelledOrRequested(error[w])
  /\ isRecoverableFilesystemError(error[w]) /\ attempt[w] < maxRetries
  /\ onRetry(w)
  /\ attempt' = [attempt EXCEPT ![w] = attempt[w] + 1]
  /\ pc' = [pc EXCEPT ![w] = "begin"]
  /\ UNCHANGED <<diskVars, fixedVars, cancel, runVars, envVars>>
  /\ UNCHANGED <<item, backupPath, error, chunks>>

\* markItemFailed; the error aborts the run unless continueOnError.
markItemFailed(w) ==
  /\ failed' = Append(failed, item[w])
  /\ WriteJournal([journalState EXCEPT !.failed = @ \cup {item[w]}])

ThrownFailed(w) ==
  /\ Alive /\ pc[w] = "thrown"
  /\ ~cancelledOrRequested(error[w])
  /\ ~(isRecoverableFilesystemError(error[w]) /\ attempt[w] < maxRetries)
  /\ markItemFailed(w)
  /\ IF continueOnError
     THEN pc' = [pc EXCEPT ![w] = "idle"] /\ abortError' = abortError
     ELSE Reject(w, error[w])
  /\ UNCHANGED <<dst, bak, logLines, fixedVars, cancel, envVars>>
  /\ UNCHANGED <<item, attempt, retryEvents, backupPath, error, chunks>>
  /\ UNCHANGED <<phase, queue, total, completed, succeededFiles,
                 workerCount, outcome, resumeFromJournal, recoverTodo, bytesTransferred, syncLogWriteChain, partialResult, largeTodo, journalWriteChain>>

(***************************************************************************)
(* syncPlan settles.                                                       *)
(***************************************************************************)
TreeSyncErrorCodes ==
  {"SYNC_CANCELLED", "SOURCE_UNAVAILABLE", "DESTINATION_PATH_CONFLICT",
   "BACKUP_CLEANUP_FAILED", "RESTORE_FAILED"}

\* abortError instanceof TreeSyncError ? abortError : SYNC_ABORTED
rejectionCode(e) == IF e \in TreeSyncErrorCodes THEN e ELSE "SYNC_ABORTED"

\* buildResult(): the counters and lists as they stand.
buildResult ==
  [completed |-> completed, total |-> total, succeededFiles |-> succeededFiles,
   failed |-> failed, bytesCopied |-> bytesTransferred]

\* if (abortError) { partialResult = buildResult(); ... throw }
SettleAbort ==
  /\ phase = "running" /\ abortError # "none"
  /\ outcome' = rejectionCode(abortError)
  /\ partialResult' = <<buildResult>>
  /\ phase' = "settled"
  /\ UNCHANGED <<diskVars, fixedVars, cancel, workerVars, envVars>>
  /\ UNCHANGED <<journalState, queue, total, completed, succeededFiles, failed,
                 workerCount, abortError, resumeFromJournal, recoverTodo, bytesTransferred, syncLogWriteChain, largeTodo, journalWriteChain>>

\* success = true: removeSyncJournal(journalPath)
SettleSuccess ==
  /\ phase = "running" /\ abortError = "none"
  /\ \A w \in Workers : w <= workerCount => pc[w] = "resolved"
  /\ largeTodo = <<>>
  /\ journalFile' = JournalAbsent
  /\ outcome' = "ok"
  /\ phase' = "settled"
  /\ UNCHANGED <<dst, bak, logLines, fixedVars, cancel, workerVars, envVars>>
  /\ UNCHANGED <<journalState, queue, total, completed, succeededFiles, failed,
                 workerCount, abortError, resumeFromJournal, recoverTodo, bytesTransferred, syncLogWriteChain, partialResult, largeTodo, journalWriteChain>>

(***************************************************************************)
(* The environment: the caller cancels, the process stops.                 *)
(***************************************************************************)
RequestCancel ==
  /\ phase = "running" /\ ~cancel
  /\ cancel' = TRUE
  /\ cancelAt' = [w \in Workers |-> <<pc[w], item[w], backupPath[w]>>]
  /\ UNCHANGED <<diskVars, fixedVars, runVars, workerVars>>
  /\ UNCHANGED <<faults, crashes, resumes, orig, prevCopied, destAtStart, cancelSeen>>

\* Process memory as a new process finds it.
MemoryCleared ==
  /\ journalState' = JournalAbsent
  /\ queue' = <<>>
  /\ total' = 0
  /\ completed' = 0
  /\ succeededFiles' = <<>>
  /\ failed' = <<>>
  /\ workerCount' = 0
  /\ abortError' = "none"
  /\ outcome' = "none"
  /\ resumeFromJournal' = FALSE
  /\ recoverTodo' = <<>>
  /\ bytesTransferred' = 0
  /\ syncLogWriteChain' = "resolved"
  /\ partialResult' = <<>>
  /\ largeTodo' = <<>>
  /\ journalWriteChain' = <<>>
  /\ pc' = NoWorker
  /\ item' = [w \in Workers |-> "-"]
  /\ attempt' = [w \in Workers |-> 0]
  /\ retryEvents' = [w \in Workers |-> 0]
  /\ backupPath' = [w \in Workers |-> NoBackupPath]
  /\ error' = [w \in Workers |-> "none"]
  /\ chunks' = [w \in Workers |-> 0]
  /\ cancel' = FALSE
  /\ cancelAt' = NoCancelAt
  /\ cancelSeen' = FALSE

Crash ==
  /\ phase \in {"running", "recovering"} /\ crashes < MaxCrashes
  /\ crashes' = crashes + 1
  /\ phase' = "crashed"
  /\ prevCopied' = prevCopied + completed
  /\ MemoryCleared
  /\ UNCHANGED <<diskVars, fixedVars, faults, resumes, orig, destAtStart>>

(***************************************************************************)
(* resumeSyncFromJournal and recoverActiveEntriesFromJournal.              *)
(***************************************************************************)
Quiescent == \A w \in Workers : pc[w] \in {"off", "resolved", "rejected"}

\* Object.values(state.activeEntries), in the plan's order.
activeTargets(state) ==
  FilterNotIn(PlanTargets, {t \in Targets : state.activeEntries[t] = NotActive})

\* readSyncJournal(journalPath) finds the journal of an interrupted run.
ResumeStart ==
  /\ phase = "crashed" \/ (phase = "settled" /\ outcome # "ok")
  /\ Quiescent
  /\ resumes < MaxResumes
  /\ journalFile.present
  /\ resumes' = resumes + 1
  /\ prevCopied' = prevCopied + completed
  /\ journalState' = journalFile
  /\ recoverTodo' = activeTargets(journalFile)
  /\ bytesTransferred' = 0
  /\ syncLogWriteChain' = "resolved"
  /\ partialResult' = <<>>
  /\ largeTodo' = <<>>
  /\ journalWriteChain' = <<>>
  /\ phase' = "recovering"
  /\ queue' = <<>>
  /\ total' = 0
  /\ completed' = 0
  /\ succeededFiles' = <<>>
  /\ failed' = <<>>
  /\ workerCount' = 0
  /\ abortError' = "none"
  /\ outcome' = "none"
  /\ resumeFromJournal' = FALSE
  /\ pc' = NoWorker
  /\ item' = [w \in Workers |-> "-"]
  /\ attempt' = [w \in Workers |-> 0]
  /\ retryEvents' = [w \in Workers |-> 0]
  /\ backupPath' = [w \in Workers |-> NoBackupPath]
  /\ error' = [w \in Workers |-> "none"]
  /\ chunks' = [w \in Workers |-> 0]
  /\ cancel' = FALSE
  /\ cancelAt' = NoCancelAt
  /\ cancelSeen' = FALSE
  /\ UNCHANGED <<diskVars, fixedVars, faults, crashes, orig, destAtStart>>

RecoverFrame ==
  /\ UNCHANGED <<journalFile, logLines, fixedVars, cancel, workerVars>>
  /\ UNCHANGED <<journalState, queue, total, completed, succeededFiles, failed,
                 workerCount, abortError, resumeFromJournal, bytesTransferred, syncLogWriteChain, partialResult, largeTodo, journalWriteChain>>
  /\ UNCHANGED <<crashes, resumes, orig, prevCopied, destAtStart, cancelAt, cancelSeen>>

\* One entry: fs.unlink(targetPath); if (backupPath) fs.rename(backupPath,
\* targetPath), ENOENT tolerated.
RecoverEntry ==
  /\ phase = "recovering" /\ recoverTodo # <<>>
  /\ LET t == Head(recoverTodo)
         restore == journalState.activeEntries[t] = BackupPathOf /\ bak[t] # NoFile
     IN /\ dst' = [dst EXCEPT ![t] = IF restore THEN bak[t] ELSE afterUnlink(dst[t])]
        /\ bak' = [bak EXCEPT ![t] = IF restore THEN NoFile ELSE bak[t]]
  /\ recoverTodo' = Tail(recoverTodo)
  /\ RecoverFrame
  /\ UNCHANGED <<phase, outcome, faults>>

\* The rename throws something other than ENOENT: resume rejects RESTORE_FAILED.
RecoverEntryFails ==
  /\ phase = "recovering" /\ recoverTodo # <<>> /\ faults < MaxFaults
  /\ LET t == Head(recoverTodo)
     IN /\ journalState.activeEntries[t] = BackupPathOf /\ bak[t] # NoFile
        /\ dst' = [dst EXCEPT ![t] = afterUnlink(dst[t])]
  /\ faults' = faults + 1
  /\ recoverTodo' = <<>>
  /\ outcome' = "RESTORE_FAILED"
  /\ phase' = "settled"
  /\ RecoverFrame
  /\ UNCHANGED bak

\* state.activeEntries = {}; writeSyncJournal; nothing is left to copy:
\* removeSyncJournal and the empty result.
RecoverDoneEmpty ==
  /\ phase = "recovering" /\ recoverTodo = <<>>
  /\ remainingPlan(journalState) = <<>>
  /\ journalState' = [journalState EXCEPT !.activeEntries = NoEntries]
  /\ journalFile' = JournalAbsent
  /\ outcome' = "ok"
  /\ resumeFromJournal' = TRUE
  /\ phase' = "settled"
  /\ UNCHANGED <<dst, bak, logLines, fixedVars, cancel, workerVars, envVars>>
  /\ UNCHANGED <<queue, total, completed, succeededFiles, failed, workerCount,
                 abortError, recoverTodo, bytesTransferred, syncLogWriteChain, partialResult, largeTodo, journalWriteChain>>

\* state.activeEntries = {}; writeSyncJournal; syncPlan(remainingPlan, ...).
RecoverDoneSync ==
  /\ phase = "recovering" /\ recoverTodo = <<>>
  /\ remainingPlan(journalState) # <<>>
  /\ SyncPlanBegin(remainingPlan(journalState),
                   [journalState EXCEPT !.activeEntries = NoEntries], TRUE)
  /\ UNCHANGED <<dst, bak, logLines, fixedVars, cancel, recoverTodo, envVars>>

\* A later call of syncPlan with a plan of its own (main.js 'sync-plan' calls
\* nothing else) while the journal of an interrupted run lies at journalPath:
\* createInitialJournalState and the first queueJournalWrite.
SyncPlanOverJournal ==
  /\ phase = "crashed" \/ (phase = "settled" /\ outcome # "ok")
  /\ Quiescent
  /\ resumes < MaxResumes
  /\ journalFile.present
  /\ resumes' = resumes + 1
  /\ prevCopied' = prevCopied + completed
  /\ SyncPlanBegin(PlanTargets, createInitialJournalState, FALSE)
  /\ cancel' = FALSE
  /\ cancelAt' = NoCancelAt
  /\ cancelSeen' = FALSE
  /\ UNCHANGED <<dst, bak, logLines, fixedVars, recoverTodo, faults, crashes, orig,
                 destAtStart>>

(***************************************************************************)
(* The engine's specification.                                             *)
(***************************************************************************)
WorkerStep(w) ==
  \/ NextItemCancelled(w) \/ NextItem(w) \/ WorkerResolve(w)
  \/ BeginCancelled(w) \/ BeginAttempt(w)
  \/ Preflight(w) \/ PreflightFails(w)
  \/ StatAbsent(w) \/ StatConflict(w) \/ BackupRename(w) \/ BackupRenameFails(w)
  \/ JournalBackup(w)
  \/ CopyChunk(w) \/ CopyLastCheck(w) \/ CopyCancelled(w) \/ CopyFails(w) \/ CopyEOF(w)
  \/ CleanupBackup(w) \/ CleanupBackupFails(w)
  \/ Commit(w) \/ LogWrite(w) \/ LogWriteFails(w) \/ LogWriteRejected(w)
  \/ RollbackNoBackup(w) \/ RollbackRestore(w) \/ RollbackRestoreFails(w)
  \/ RollbackJournal(w)
  \/ ThrownCancelled(w) \/ ThrownRetry(w) \/ ThrownFailed(w)

NextEngine ==
  \/ StartSync
  \/ \E w \in Workers : WorkerStep(w)
  \/ SettleAbort \/ SettleSuccess
  \/ RequestCancel \/ Crash
  \/ ResumeStart \/ RecoverEntry \/ RecoverEntryFails
  \/ RecoverDoneEmpty \/ RecoverDoneSync

(***************************************************************************)
(* buildComparePlan.  File names and relative paths are sequences of       *)
(* characters; walkFiles' result and the destination scan are the inputs.  *)
(***************************************************************************)
MaxSourceFiles == 3

Sizes == {1, 2}

SetMax(S) == CHOOSE x \in S : \A y \in S : y <= x

DigitSeq == <<"0", "1", "2", "3", "4", "5", "6", "7", "8", "9">>
Digits == SeqToSet(DigitSeq)
DigitValue(c) == (CHOOSE i \in 1..Len(DigitSeq) : DigitSeq[i] = c) - 1

LastIndexOf(s, c) == SetMax({0} \cup {i \in 1..Len(s) : s[i] = c})

\* path.basename(p), path.dirname(p), path.extname(n)
basename(p) == SubSeq(p, LastIndexOf(p, "/") + 1, Len(p))

dirname(p) ==
  IF LastIndexOf(p, "/") = 0 THEN <<".">> ELSE SubSeq(p, 1, LastIndexOf(p, "/") - 1)

extname(n) ==
  IF LastIndexOf(n, ".") <= 1 \/ n = <<".", ".">>
  THEN <<>> ELSE SubSeq(n, LastIndexOf(n, "."), Len(n))

\* The length of the run of digits the stem ends with: (\d+)$
DigitRun(s) ==
  SetMax({k \in 0..Len(s) : \A i \in (Len(s) - k + 1)..Len(s) : s[i] \in Digits})

\* Number.parseInt(digits, 10)
RECURSIVE parseInt(_)
parseInt(ds) ==
  IF ds = <<>> THEN 0
  ELSE 10 * parseInt(SubSeq(ds, 1, Len(ds) - 1)) + DigitValue(ds[Len(ds)])

\* stem.match(/^(.*)_v(\d+)$/i): the stem ends with "_v" or "_V" and digits.
parseVersionedName(fileName) ==
  LET ext == extname(fileName)
      stem == SubSeq(fileName, 1, Len(fileName) - Len(ext))
      m == Len(stem) - DigitRun(stem)
      match == /\ DigitRun(stem) >= 1 /\ m >= 2
               /\ stem[m] \in {"v", "V"} /\ stem[m - 1] = "_"
  IN IF ~match
     THEN [targetFileName |-> fileName, version |-> 0, isVersioned |-> FALSE]
     ELSE [targetFileName |-> SubSeq(stem, 1, m - 2) \o ext,
           version |-> parseInt(SubSeq(stem, m + 1, Len(stem))),
           isVersioned |-> TRUE]

\* path.normalize(path.join(dir === '.' ? '' : dir, parsed.targetFileName))
targetRelativePathOf(relativePath) ==
  IF dirname(relativePath) = <<".">>
  THEN parseVersionedName(basename(relativePath)).targetFileName
  ELSE dirname(relativePath) \o <<"/">>
         \o parseVersionedName(basename(relativePath)).targetFileName

versionOf(relativePath) == parseVersionedName(basename(relativePath)).version

\* The source tree: a.t, a_v2.t, a_V10.t, a_v02.t and s/a_v1.t.
SourceUniverse ==
  { <<"a", ".", "t">>,
    <<"a", "_", "v", "2", ".", "t">>,
    <<"a", "_", "V", "1", "0", ".", "t">>,
    <<"a", "_", "v", "0", "2", ".", "t">>,
    <<"s", "/", "a", "_", "v", "1", ".", "t">> }

\* The destination tree: a.t and s/a.t, under the directory s.
RightUniverse == { <<"a", ".", "t">>, <<"s", "/", "a", ".", "t">> }
SubDir == <<"s">>

\* What walkFiles(leftRoot) can return: each file once, in any order.
Scans ==
  {f \in UNION {[1..n -> [relativePath : SourceUniverse, size : Sizes]] :
                  n \in 0..MaxSourceFiles} :
     \A i, j \in DOMAIN f : i # j => f[i].relativePath # f[j].relativePath}

\* No call of buildComparePlan yet.
NoRoots == [left |-> <<"-">>, right |-> <<"-">>]

(***************************************************************************)
(* The plan argument of syncPlan.  A plan is an array or some other value; *)
(* an item is an object with a sourcePath and a targetPath (either may be  *)
(* the empty string or missing, which the code tells apart from neither)   *)
(* or some other value.                                                    *)
(***************************************************************************)
MaxPlanLen == 3

PlanItems ==
  {[isObject |-> FALSE, sourcePath |-> "", targetPath |-> ""]}
    \cup [isObject : {TRUE}, sourcePath : {"", "s"}, targetPath : {"", "t"}]

RECURSIVE ItemLists(_)
ItemLists(n) ==
  IF n = 0 THEN {<<>>}
  ELSE ItemLists(n - 1) \cup {Append(l, i) : l \in ItemLists(n - 1), i \in PlanItems}

PlanInputs == [isArray : BOOLEAN, items : ItemLists(MaxPlanLen)]

NoPlanInput == [isArray |-> FALSE, items |-> <<>>]
NotValidated == [done |-> FALSE, code |-> "none", normalizedPlan |-> <<>>]

\* normalizePlanItem(item) returns a plan item, not null.
normalizePlanItem(i) == i.isObject /\ i.sourcePath # "" /\ i.targetPath # ""

\* plan.map((item) => normalizePlanItem(item)).filter(Boolean)
RECURSIVE normalizePlan(_)
normalizePlan(items) ==
  IF items = <<>> THEN <<>>
  ELSE IF normalizePlanItem(Head(items))
       THEN <<Head(items)>> \o normalizePlan(Tail(items))
       ELSE normalizePlan(Tail(items))

\* The entry of syncPlan: INVALID_PLAN, or the normalized plan.
validatePlan(input) ==
  IF ~input.isArray
  THEN [done |-> TRUE, code |-> "INVALID_PLAN", normalizedPlan |-> <<>>]
  ELSE [done |-> TRUE, code |-> "none", normalizedPlan |-> normalizePlan(input.items)]

SyncPlanEntry ==
  /\ ~validation.done
  /\ \E input \in PlanInputs :
       /\ planInput' = input
       /\ validation' = validatePlan(input)
  /\ UNCHANGED <<engineVars, controlVars>>
  /\ UNCHANGED <<comparePhase, leftFiles, rightSizeByRelativePath, rightDirKind, scanned,
                 bestByTargetRelativePath, plan, directoriesToCreate, compareError>>
  /\ UNCHANGED <<compareRoots, leftTree, rightTree, syncs, parseVars, dirVars, handleVars>>

NextEntry == SyncPlanEntry

InitPlanner ==
  /\ comparePhase = "idle"
  /\ leftFiles = <<>>
  /\ rightSizeByRelativePath = <<>>
  /\ rightDirKind = "absent"
  /\ scanned = 0
  /\ bestByTargetRelativePath = <<>>
  /\ plan = <<>>
  /\ directoriesToCreate = <<>>
  /\ compareError = "none"
  /\ compareRoots = NoRoots
  /\ leftTree = <<>>
  /\ rightTree = <<>>
  /\ syncs = 0
  /\ parsedFileName = <<>>
  /\ rightDirs = <<>>
  /\ mkdirDone = 0
  /\ opened = 0
  /\ openError = "none"
  /\ parsed = parseVersionedName(<<>>)
  /\ copyStep = "new"
  /\ sourceHandle = 0
  /\ targetHandle = 0
  /\ syncLogHandle = 0
  /\ position = 0
  /\ copiesLeft = 0
  /\ planInput = NoPlanInput
  /\ validation = NotValidated

\* ensureDirectoryAvailable twice, walkFiles(leftRoot), walkFiles(rightRoot) and
\* the loop that fills rightSizeByRelativePath.
CompareBegin ==
  /\ comparePhase = "idle"
  /\ \E files \in Scans : leftFiles' = files
  /\ \E D \in SUBSET RightUniverse, kind \in {"absent", "dir", "file"} :
       /\ (\E p \in D : dirname(p) = SubDir) => kind = "dir"
       /\ rightDirKind' = kind
       /\ \E sizes \in [D -> Sizes] : rightSizeByRelativePath' = sizes
  /\ comparePhase' = "scanned"
  /\ UNCHANGED <<scanned, bestByTargetRelativePath, plan, directoriesToCreate,
                 compareError>>
  /\ UNCHANGED <<scanVars, engineVars, controlVars>>

\* The comparison turned round: a lower version replaces a higher one.
replacesBest_LowestWins(hasPrev, prevVersion, version) ==
  ~hasPrev \/ version < prevVersion

\* !prev || parsed.version > prev.version
replacesBest(hasPrev, prevVersion, version) ==
  ~hasPrev \/ version > prevVersion

\* Position of the Map entry with this key, 0 when there is none.
indexOfTarget(entries, target) ==
  SetMax({0} \cup {i \in 1..Len(entries) : entries[i].targetRelativePath = target})

\* One iteration of "for (const lf of leftFiles)": Map.set keeps the place of a
\* key that is already there.
bestAfter(best, lf) ==
  LET target == targetRelativePathOf(lf.relativePath)
      idx == indexOfTarget(best, target)
      entry == [sourceRelativePath |-> lf.relativePath,
                sourceSize |-> lf.size,
                targetRelativePath |-> target,
                version |-> versionOf(lf.relativePath)]
  IN IF idx = 0 THEN Append(best, entry)
     ELSE IF replacesBest(TRUE, best[idx].version, entry.version)
          THEN [best EXCEPT ![idx] = entry]
          ELSE best

ResolveStep ==
  /\ comparePhase = "scanned" /\ scanned < Len(leftFiles)
  /\ bestByTargetRelativePath' = bestAfter(bestByTargetRelativePath, leftFiles[scanned + 1])
  /\ scanned' = scanned + 1
  /\ UNCHANGED <<comparePhase, leftFiles, rightSizeByRelativePath, rightDirKind, plan,
                 directoriesToCreate, compareError>>
  /\ UNCHANGED <<scanVars, engineVars, controlVars>>

\* The size comparison dropped: whatever exists at the destination is skipped.
skipsItem_WhenPresent(right, entry) == entry.targetRelativePath \in DOMAIN right

\* destinationExists && existingSize === item.sourceSize: the item is skipped.
skipsItem(right, entry) ==
  /\ entry.targetRelativePath \in DOMAIN right
  /\ right[entry.targetRelativePath] = entry.sourceSize

RECURSIVE planItems(_, _)
planItems(entries, right) ==
  IF entries = <<>> THEN <<>>
  ELSE IF skipsItem(right, Head(entries)) THEN planItems(Tail(entries), right)
  ELSE <<[sourceRelativePath |-> Head(entries).sourceRelativePath,
          sourceSize |-> Head(entries).sourceSize,
          targetRelativePath |-> Head(entries).targetRelativePath,
          version |-> Head(entries).version,
          destinationExists |-> Head(entries).targetRelativePath \in DOMAIN right]>>
       \o planItems(Tail(entries), right)

\* a.localeCompare(b) < 0 for the characters of the model: punctuation before
\* digits before letters, character by character.
CharOrder ==
  <<"_", ".", "/", "0", "1", "2", "3", "4", "5", "6", "7", "8", "9", "a", "s", "t", "v", "V">>
CharRank(c) == CHOOSE i \in 1..Len(CharOrder) : CharOrder[i] = c

RECURSIVE localeCompareLess(_, _)
localeCompareLess(a, b) ==
  IF a = <<>> THEN b # <<>>
  ELSE IF b = <<>> THEN FALSE
  ELSE IF Head(a) = Head(b) THEN localeCompareLess(Tail(a), Tail(b))
  ELSE CharRank(Head(a)) < CharRank(Head(b))

\* plan.sort((a, b) => a.targetRelativePath.localeCompare(b.targetRelativePath))
RECURSIVE insertSorted(_, _)
insertSorted(x, sorted) ==
  IF sorted = <<>> THEN <<x>>
  ELSE IF localeCompareLess(Head(sorted).targetRelativePath, x.targetRelativePath)
       THEN <<Head(sorted)>> \o insertSorted(x, Tail(sorted))
       ELSE <<x>> \o sorted

RECURSIVE sortByTarget(_)
sortByTarget(items) ==
  IF items = <<>> THEN <<>> ELSE insertSorted(Head(items), sortByTarget(Tail(items)))

\* The loop over bestByTargetRelativePath.values() and the sort.
PlanBuild ==
  /\ comparePhase = "scanned" /\ scanned = Len(leftFiles)
  /\ plan' = sortByTarget(planItems(bestByTargetRelativePath, rightSizeByRelativePath))
  /\ comparePhase' = "built"
  /\ UNCHANGED <<leftFiles, rightSizeByRelativePath, rightDirKind, scanned,
                 bestByTargetRelativePath, directoriesToCreate, compareError>>
  /\ UNCHANGED <<scanVars, engineVars, controlVars>>

requiredTargetDirs ==
  {dirname(plan[i].targetRelativePath) : i \in 1..Len(plan)} \ {<<".">>}

\* for (const relativeDir of requiredTargetDirs) fs.stat(fullDir); the one
\* directory of the model leaves directoriesToCreate.sort nothing to reorder.
PlanDirectories ==
  /\ comparePhase = "built"
  /\ ~(SubDir \in requiredTargetDirs /\ rightDirKind = "file")
  /\ directoriesToCreate' =
       IF SubDir \in requiredTargetDirs /\ rightDirKind = "absent"
       THEN <<SubDir>> ELSE <<>>
  /\ comparePhase' = "done"
  /\ UNCHANGED <<leftFiles, rightSizeByRelativePath, rightDirKind, scanned,
                 bestByTargetRelativePath, plan, compareError>>
  /\ UNCHANGED <<scanVars, engineVars, controlVars>>

\* !stat.isDirectory(): DESTINATION_PATH_CONFLICT
PlanDirectoryConflict ==
  /\ comparePhase = "built"
  /\ SubDir \in requiredTargetDirs /\ rightDirKind = "file"
  /\ compareError' = "DESTINATION_PATH_CONFLICT"
  /\ comparePhase' = "failed"
  /\ UNCHANGED <<leftFiles, rightSizeByRelativePath, rightDirKind, scanned,
                 bestByTargetRelativePath, plan, directoriesToCreate>>
  /\ UNCHANGED <<scanVars, engineVars, controlVars>>

NextPlanner ==
  \/ CompareBegin
  \/ ResolveStep
  \/ PlanBuild
  \/ PlanDirectories
  \/ PlanDirectoryConflict

(***************************************************************************)
(* walkFiles and the roots of buildComparePlan.  A tree is the sequence of *)
(* the directory entries under a root, each with the relative path of its  *)
(* directory; readdir lists the entries of a directory in that order.      *)
(***************************************************************************)
MaxTreeEntries == 3

IGNORED_FILE_NAMES ==
  { <<".", "d", "s", "_", "s", "t", "o", "r", "e">>,
    <<"t", "h", "u", "m", "b", "s", ".", "d", "b">>,
    <<"d", "e", "s", "k", "t", "o", "p", ".", "i", "n", "i">>,
    <<"i", "c", "o", "n", "\r">>,
    <<"s", "y", "n", "c", "-", "h", "i", "s", "t", "o", "r", "y", ".", "l", "o", "g">> }

UpperCase == <<"D", "I", "T", "V">>
LowerCase == <<"d", "i", "t", "v">>

\* String.prototype.toLowerCase, for the letters of the model.
toLowerCase(name) ==
  [i \in 1..Len(name) |->
     IF \E k \in 1..Len(UpperCase) : UpperCase[k] = name[i]
     THEN LowerCase[CHOOSE k \in 1..Len(UpperCase) : UpperCase[k] = name[i]]
     ELSE name[i]]

\* A variant that finds no name hidden.
isHiddenName_Never(name) == FALSE

\* name.startsWith('.')
isHiddenName(name) == name # <<>> /\ name[1] = "."

\* IGNORED_FILE_NAMES.has(String(name || '').toLowerCase())
isLikelySystemFile(name) == toLowerCase(name) \in IGNORED_FILE_NAMES

\* path.extname(fileName).length > 1
hasNormalExtension(fileName) == Len(extname(fileName)) > 1

\* path.join(relative, entry.name)
joinPath(relative, name) == IF relative = <<>> THEN name ELSE relative \o <<"/">> \o name

\* The for-loop of walkFiles from entry i on; a Dirent of a symbolic link is
\* neither isDirectory() nor isFile().
RECURSIVE walkFrom(_, _, _)
walkFrom(tree, relative, i) ==
  IF i > Len(tree) THEN <<>>
  ELSE
    (IF tree[i].parent # relative THEN <<>>
     ELSE IF isHiddenName(tree[i].name) \/ isLikelySystemFile(tree[i].name) THEN <<>>
     ELSE IF tree[i].kind = "dir" THEN walkFrom(tree, joinPath(relative, tree[i].name), 1)
     ELSE IF tree[i].kind = "file" /\ hasNormalExtension(tree[i].name)
          THEN <<[relativePath |-> joinPath(relative, tree[i].name), size |-> tree[i].size]>>
     ELSE <<>>)
    \o walkFrom(tree, relative, i + 1)

walkFiles(tree, relative) == walkFrom(tree, relative, 1)

\* The entries a source tree is made of: versioned and plain files, the
\* directory s, hidden and system names, names without an extension, links
\* to a file and to a directory, and what lies under them.
EntryPool ==
  << [parent |-> <<>>, name |-> <<"a", "_", "v", "2", ".", "t">>, kind |-> "file", size |-> 1],
     [parent |-> <<>>, name |-> <<"a", ".", "t">>, kind |-> "file", size |-> 2],
     [parent |-> <<>>, name |-> <<"s">>, kind |-> "dir", size |-> 0],
     [parent |-> <<"s">>, name |-> <<"a", "_", "v", "1", ".", "t">>, kind |-> "file", size |-> 1],
     [parent |-> <<>>, name |-> <<".", "a", "_", "v", "9", ".", "t">>, kind |-> "file", size |-> 1],
     [parent |-> <<>>, name |-> <<".", "s">>, kind |-> "dir", size |-> 0],
     [parent |-> <<".", "s">>, name |-> <<"a", "_", "v", "9", ".", "t">>, kind |-> "file", size |-> 1],
     [parent |-> <<>>, name |-> <<"T", "h", "u", "m", "b", "s", ".", "d", "b">>, kind |-> "file", size |-> 1],
     [parent |-> <<>>, name |-> <<"s", "y", "n", "c", "-", "h", "i", "s", "t", "o", "r", "y", ".", "l", "o", "g">>, kind |-> "file", size |-> 1],
     [parent |-> <<>>, name |-> <<"a">>, kind |-> "file", size |-> 1],
     [parent |-> <<>>, name |-> <<"a", ".">>, kind |-> "file", size |-> 1],
     [parent |-> <<>>, name |-> <<"a", "_", "v", "9", ".", "t">>, kind |-> "link", size |-> 1],
     [parent |-> <<>>, name |-> <<"t">>, kind |-> "link", size |-> 0],
     [parent |-> <<"t">>, name |-> <<"a", "_", "v", "9", ".", "t">>, kind |-> "file", size |-> 1] >>

RECURSIVE pickEntries(_, _)
pickEntries(chosen, i) ==
  IF i > Len(EntryPool) THEN <<>>
  ELSE (IF i \in chosen THEN <<EntryPool[i]>> ELSE <<>>) \o pickEntries(chosen, i + 1)

\* Every entry lies in the root or in a directory, or under a link, of the tree.
hasItsDirectory(chosen, i) ==
  \/ EntryPool[i].parent = <<>>
  \/ \E j \in chosen :
       /\ EntryPool[j].kind \in {"dir", "link"}
       /\ joinPath(EntryPool[j].parent, EntryPool[j].name) = EntryPool[i].parent

Trees ==
  {pickEntries(chosen, 1) :
     chosen \in {c \in SUBSET (1..Len(EntryPool)) :
                   /\ Cardinality(c) <= MaxTreeEntries
                   /\ \A i \in c : hasItsDirectory(c, i)}}

\* The roots a caller passes: two directories apart, a root that is a symbolic
\* link to a directory, the same directory twice, the destination inside the
\* source, the filesystem root as the source, and a source that is a file.
RootSymlinks == {<<"k">>, <<"j">>}
RootFiles == {<<"f">>}
CompareRoots ==
  { [left |-> <<"L">>, right |-> <<"R">>],
    [left |-> <<"k">>, right |-> <<"R">>],
    [left |-> <<"L">>, right |-> <<"j">>],
    [left |-> <<"L">>, right |-> <<"L">>],
    [left |-> <<"L">>, right |-> <<"L", "s">>],
    [left |-> <<>>, right |-> <<"s">>],
    [left |-> <<"f">>, right |-> <<"R">>] }

\* The entries of files that lie under directory dir, relative to it.
RECURSIVE filesUnder(_, _)
filesUnder(files, dir) ==
  IF files = <<>> THEN <<>>
  ELSE (IF dir = <<>> THEN <<Head(files)>>
        ELSE IF /\ Len(Head(files).relativePath) > Len(dir) + 1
                /\ SubSeq(Head(files).relativePath, 1, Len(dir) + 1) = dir \o <<"/">>
        THEN <<[relativePath |-> SubSeq(Head(files).relativePath, Len(dir) + 2,
                                        Len(Head(files).relativePath)),
                size |-> Head(files).size]>>
        ELSE <<>>)
       \o filesUnder(Tail(files), dir)

\* rightSizeByRelativePath.set(rf.relativePath, rf.size) for each rf
sizeByRelativePath(files) ==
  [p \in {files[i].relativePath : i \in 1..Len(files)} |->
     (CHOOSE f \in SeqToSet(files) : f.relativePath = p).size]

hasDirectory(tree, relPath) ==
  \E i \in 1..Len(tree) :
    tree[i].kind = "dir" /\ joinPath(tree[i].parent, tree[i].name) = relPath

\* ensureDirectoryAvailable: stat(rootPath).isDirectory(), through a link.
CompareInvalidDirectory ==
  /\ comparePhase = "idle"
  /\ \E roots \in CompareRoots :
       /\ roots.left \in RootFiles \/ roots.right \in RootFiles
       /\ compareRoots' = roots
  /\ compareError' = "INVALID_DIRECTORY"
  /\ comparePhase' = "failed"
  /\ UNCHANGED <<leftFiles, rightSizeByRelativePath, rightDirKind, scanned,
                 bestByTargetRelativePath, plan, directoriesToCreate, leftTree>>
  /\ UNCHANGED <<rightTree, syncs, sideVars, parseVars, dirVars, engineVars, controlVars>>

\* ensureDirectoryAvailable twice, walkFiles(leftRoot), walkFiles(rightRoot):
\* the destination is a tree of its own, the source tree itself, or the
\* directory s of the source tree.
CompareTrees ==
  /\ comparePhase = "idle"
  /\ \E roots \in CompareRoots, tree \in Trees :
       /\ roots.left \notin RootFiles /\ roots.right \notin RootFiles
       /\ compareRoots' = roots
       /\ leftTree' = tree
       /\ leftFiles' = walkFiles(tree, <<>>)
       /\ IF roots.right = roots.left
          THEN /\ rightSizeByRelativePath' = sizeByRelativePath(walkFiles(tree, <<>>))
               /\ rightDirKind' = IF hasDirectory(tree, SubDir) THEN "dir" ELSE "absent"
          ELSE IF roots.right = Append(roots.left, "s")
          THEN /\ hasDirectory(tree, SubDir)
               /\ rightSizeByRelativePath' =
                    sizeByRelativePath(filesUnder(walkFiles(tree, <<>>), SubDir))
               /\ rightDirKind' = "absent"
          ELSE \E D \in SUBSET RightUniverse, kind \in {"absent", "dir", "file"} :
                 /\ (\E p \in D : dirname(p) = SubDir) => kind = "dir"
                 /\ rightDirKind' = kind
                 /\ \E sizes \in [D -> Sizes] : rightSizeByRelativePath' = sizes
  /\ comparePhase' = "scanned"
  /\ UNCHANGED <<scanned, bestByTargetRelativePath, plan, directoriesToCreate,
                 compareError>>
  /\ UNCHANGED <<rightTree, syncs, sideVars, parseVars, dirVars, engineVars, controlVars>>

NextScan ==
  \/ CompareInvalidDirectory
  \/ CompareTrees
  \/ ResolveStep
  \/ PlanBuild
  \/ PlanDirectories
  \/ PlanDirectoryConflict

(***************************************************************************)
(* The destination directories: buildComparePlan lists them, syncPlan      *)
(* makes them and the transactions open their targets in them.             *)
(***************************************************************************)
\* The source tree of these runs: a_v1.t, s/a_v1.t, s/t/a_v2.t and t/a.t.
DirUniverse ==
  { <<"a", "_", "v", "1", ".", "t">>,
    <<"s", "/", "a", "_", "v", "1", ".", "t">>,
    <<"s", "/", "t", "/", "a", "_", "v", "2", ".", "t">>,
    <<"t", "/", "a", ".", "t">> }

DirScans ==
  {f \in UNION {[1..n -> [relativePath : DirUniverse, size : {1}]] :
                  n \in 0..MaxSourceFiles} :
     \A i, j \in DOMAIN f : i # j => f[i].relativePath # f[j].relativePath}

DirPaths == { <<"s">>, <<"s", "/", "t">>, <<"t">> }

\* fs.stat(path.join(rightRoot, p)): the kind of what is there, ENOENT when a
\* component is missing, ENOTDIR when a component above it is a file.
RECURSIVE statDir(_, _)
statDir(dirs, p) ==
  IF p = <<".">> THEN "dir"
  ELSE LET up == statDir(dirs, dirname(p))
       IN IF up = "dir" THEN (IF p \in DOMAIN dirs THEN dirs[p] ELSE "ENOENT")
          ELSE IF up = "file" THEN "ENOTDIR"
          ELSE up

\* fs.mkdir without recursive: the parent has to be there.
dirsAfterMkdir_NotRecursive(dirs, p) ==
  IF statDir(dirs, dirname(p)) = "dir" /\ p \notin DOMAIN dirs
  THEN [q \in DOMAIN dirs \cup {p} |-> IF q \in DOMAIN dirs THEN dirs[q] ELSE "dir"]
  ELSE dirs

\* fs.mkdir(fullDir, { recursive: true }): the directory and those above it.
RECURSIVE dirsAfterMkdir(_, _)
dirsAfterMkdir(dirs, p) ==
  IF p = <<".">> THEN dirs
  ELSE LET above == dirsAfterMkdir(dirs, dirname(p))
       IN [q \in DOMAIN above \cup {p} |-> IF q \in DOMAIN above THEN above[q] ELSE "dir"]

\* The destination trees: what is in a directory is there only with it.
RightDirTrees ==
  {dirs \in UNION {[D -> {"dir", "file"}] : D \in SUBSET DirPaths} :
     \A p \in DOMAIN dirs : statDir(dirs, dirname(p)) = "dir"}

\* ensureDirectoryAvailable twice and the two scans.
CompareDirs ==
  /\ comparePhase = "idle" /\ mkdirDone = 0 /\ opened = 0
  /\ \E files \in DirScans : leftFiles' = files
  /\ \E dirs \in RightDirTrees :
       /\ rightDirs' = dirs
       /\ \E D \in SUBSET RightUniverse :
            /\ \A p \in D : statDir(dirs, dirname(p)) = "dir"
            /\ \E sizes \in [D -> Sizes] : rightSizeByRelativePath' = sizes
  /\ comparePhase' = "scanned"
  /\ UNCHANGED <<rightDirKind, scanned, bestByTargetRelativePath, plan, directoriesToCreate,
                 compareError>>
  /\ UNCHANGED <<compareRoots, leftTree, rightTree, syncs, sideVars, parseVars, mkdirDone, opened,
                 openError, engineVars, controlVars>>

\* directoriesToCreate.sort((a, b) => a.localeCompare(b))
RECURSIVE sortPaths(_)
sortPaths(S) ==
  IF S = {} THEN <<>>
  ELSE LET first == CHOOSE x \in S : \A y \in S \ {x} : localeCompareLess(x, y)
       IN <<first>> \o sortPaths(S \ {first})

\* for (const relativeDir of requiredTargetDirs) fs.stat(fullDir): a directory
\* is passed, ENOENT lists it, a file and any other error end the call.
PlanDirectoriesOf ==
  /\ comparePhase = "built"
  /\ IF \A d \in requiredTargetDirs : statDir(rightDirs, d) \in {"dir", "ENOENT"}
     THEN /\ directoriesToCreate' =
               sortPaths({d \in requiredTargetDirs : statDir(rightDirs, d) = "ENOENT"})
          /\ comparePhase' = "done"
          /\ compareError' = compareError
     ELSE /\ compareError' =
               IF \E d \in requiredTargetDirs : statDir(rightDirs, d) = "file"
               THEN "DESTINATION_PATH_CONFLICT" ELSE "FILESYSTEM_ERROR"
          /\ comparePhase' = "failed"
          /\ directoriesToCreate' = directoriesToCreate
  /\ UNCHANGED <<leftFiles, rightSizeByRelativePath, rightDirKind, scanned,
                 bestByTargetRelativePath, plan>>
  /\ UNCHANGED <<scanVars, engineVars, controlVars>>

\* syncPlan's loop over directoriesToCreate: one fs.mkdir.
SyncMkdir ==
  /\ comparePhase = "done" /\ mkdirDone < Len(directoriesToCreate) /\ openError = "none"
  /\ rightDirs' = dirsAfterMkdir(rightDirs, directoriesToCreate[mkdirDone + 1])
  /\ mkdirDone' = mkdirDone + 1
  /\ UNCHANGED <<comparePhase, leftFiles, rightSizeByRelativePath, rightDirKind, scanned,
                 bestByTargetRelativePath, plan, directoriesToCreate, compareError>>
  /\ UNCHANGED <<compareRoots, leftTree, rightTree, syncs, sideVars, parseVars, opened, openError,
                 engineVars, controlVars>>

\* fs.mkdir throws and withRetry gives up: the run aborts before its item loops.
SyncMkdirFails ==
  /\ comparePhase = "done" /\ mkdirDone < Len(directoriesToCreate) /\ openError = "none"
  /\ comparePhase' = "aborted"
  /\ UNCHANGED <<leftFiles, rightSizeByRelativePath, rightDirKind, scanned,
                 bestByTargetRelativePath, plan, directoriesToCreate, compareError>>
  /\ UNCHANGED <<scanVars, engineVars, controlVars>>

\* The transaction of the next plan item opens its target for writing
\* (flag 'wx'): ENOENT when the directory of the target is missing.
SyncOpenTarget ==
  /\ comparePhase = "done" /\ mkdirDone = Len(directoriesToCreate)
  /\ opened < Len(plan)
  /\ openError' =
       IF statDir(rightDirs, dirname(plan[opened + 1].targetRelativePath)) = "dir"
       THEN "none" ELSE "ENOENT"
  /\ opened' = opened + 1
  /\ UNCHANGED <<comparePhase, leftFiles, rightSizeByRelativePath, rightDirKind, scanned,
                 bestByTargetRelativePath, plan, directoriesToCreate, compareError>>
  /\ UNCHANGED <<compareRoots, leftTree, rightTree, syncs, sideVars, parseVars, rightDirs, mkdirDone,
                 engineVars, controlVars>>

NextDirs ==
  \/ CompareDirs
  \/ ResolveStep
  \/ PlanBuild
  \/ PlanDirectoriesOf
  \/ SyncMkdir
  \/ SyncMkdirFails
  \/ SyncOpenTarget

(***************************************************************************)
(* parseVersionedName, called on file names of its own.                    *)
(***************************************************************************)
MaxNameLen == 6

NameChars == {"a", "_", "v", "V", "0", "1", "."}

FileNames == UNION {[1..n -> NameChars] : n \in 0..MaxNameLen}

\* One call in a behaviour: parseVersionedName(name).
ParseName ==
  /\ parsedFileName = <<>>
  /\ \E name \in FileNames :
       /\ parsedFileName' = name
       /\ parsed' = parseVersionedName(name)
  /\ UNCHANGED <<comparePhase, leftFiles, rightSizeByRelativePath, rightDirKind, scanned,
                 bestByTargetRelativePath, plan, directoriesToCreate, compareError>>
  /\ UNCHANGED <<compareRoots, leftTree, rightTree, syncs, sideVars, dirVars, engineVars, controlVars>>

NextParse == ParseName

(***************************************************************************)
(* buildComparePlan, syncPlan on its plan, buildComparePlan again.         *)
(***************************************************************************)
\* The source tree of these runs: a.t, a_v2.t, s/a_v1.t and _v1.t.
ResyncUniverse ==
  { <<"a", ".", "t">>,
    <<"a", "_", "v", "2", ".", "t">>,
    <<"s", "/", "a", "_", "v", "1", ".", "t">>,
    <<"_", "v", "1", ".", "t">> }

ResyncScans ==
  {f \in UNION {[1..n -> [relativePath : ResyncUniverse, size : Sizes]] :
                  n \in 0..MaxSourceFiles} :
     \A i, j \in DOMAIN f : i # j => f[i].relativePath # f[j].relativePath}

\* What walkFiles(rightRoot) returns of the files at the destination: hidden
\* and system names and names without an extension are passed over.
scannedFiles(tree) ==
  [p \in {q \in DOMAIN tree : /\ ~isHiddenName(basename(q))
                               /\ ~isLikelySystemFile(basename(q))
                               /\ hasNormalExtension(basename(q))} |-> tree[p]]

\* The first call: the scans of both roots.
CompareDisk ==
  /\ comparePhase = "idle" /\ syncs = 0
  /\ \E files \in ResyncScans : leftFiles' = files
  /\ \E D \in SUBSET RightUniverse, kind \in {"absent", "dir", "file"} :
       /\ (\E p \in D : dirname(p) = SubDir) => kind = "dir"
       /\ rightDirKind' = kind
       /\ \E sizes \in [D -> Sizes] :
            /\ rightTree' = sizes
            /\ rightSizeByRelativePath' = scannedFiles(sizes)
  /\ comparePhase' = "scanned"
  /\ UNCHANGED <<scanned, bestByTargetRelativePath, plan, directoriesToCreate,
                 compareError, compareRoots, leftTree, syncs>>
  /\ UNCHANGED <<sideVars, parseVars, dirVars, engineVars, controlVars>>

\* syncPlan(plan, { directoriesToCreate }) returns with every item copied:
\* the directories are made and each targetPath holds sourceSize bytes.
SyncPlanSucceeds ==
  /\ comparePhase = "done" /\ syncs = 0
  /\ rightTree' =
       [p \in DOMAIN rightTree \cup {plan[i].targetRelativePath : i \in 1..Len(plan)} |->
          IF \E i \in 1..Len(plan) : plan[i].targetRelativePath = p
          THEN plan[CHOOSE i \in 1..Len(plan) : plan[i].targetRelativePath = p].sourceSize
          ELSE rightTree[p]]
  /\ rightDirKind' = IF directoriesToCreate # <<>> THEN "dir" ELSE rightDirKind
  /\ syncs' = 1
  /\ comparePhase' = "idle"
  /\ UNCHANGED <<leftFiles, rightSizeByRelativePath, scanned, bestByTargetRelativePath,
                 plan, directoriesToCreate, compareError, compareRoots, leftTree>>
  /\ UNCHANGED <<sideVars, parseVars, dirVars, engineVars, controlVars>>

\* The second call, on the unchanged source and the destination as it is now.
CompareAgain ==
  /\ comparePhase = "idle" /\ syncs = 1
  /\ rightSizeByRelativePath' = scannedFiles(rightTree)
  /\ scanned' = 0
  /\ bestByTargetRelativePath' = <<>>
  /\ plan' = <<>>
  /\ directoriesToCreate' = <<>>
  /\ comparePhase' = "scanned"
  /\ UNCHANGED <<leftFiles, rightDirKind, compareError, scanVars>>
  /\ UNCHANGED <<engineVars, controlVars>>

NextResync ==
  \/ CompareDisk
  \/ ResolveStep
  \/ PlanBuild
  \/ PlanDirectories
  \/ PlanDirectoryConflict
  \/ SyncPlanSucceeds
  \/ CompareAgain

(***************************************************************************)
(* The control surface of main.js: the ipc handlers 'compare-trees',       *)
(* 'sync-plan', 'cancel-sync', 'toggle-sync-pause' and                     *)
(* 'set-selected-directories', each an invocation that runs to its first   *)
(* await and is resumed when what it awaits settles.                       *)
(***************************************************************************)
MaxRequests == 4

Requests == 1..MaxRequests
APP_OPERATION == [IDLE |-> "idle", COMPARING |-> "comparing", SYNCING |-> "syncing"]
RootPairs == {"r1", "r2"}
Digests == {"d1", "d2"}

NoSession == [active |-> FALSE, owner |-> 0, cancelRequested |-> FALSE, paused |-> FALSE]
NoContext == [token |-> 0, roots |-> "-", digest |-> "-"]
NoRequest == [kind |-> "none", pc |-> "new", roots |-> "-",
              busyAtArrival |-> FALSE, disturbed |-> FALSE]

InitControl ==
  /\ appOperation = APP_OPERATION.IDLE
  /\ activeSyncSession = NoSession
  /\ lastCompareContext = NoContext
  /\ nextNonce = 1
  /\ requests = [r \in Requests |-> NoRequest]

\* Invocations are numbered in the order they arrive.
Arriving(r) ==
  /\ requests[r].pc = "new"
  /\ \A q \in Requests : q < r => requests[q].pc # "new"

\* The handler's synchronous part has run and left it at position pos; the
\* record keeps whether an operation was running when it arrived and whether it
\* changed the flag, the session or the compare context.
Arrive(r, kind, pos, roots) ==
  requests' = [requests EXCEPT ![r] =
    [kind |-> kind, pc |-> pos, roots |-> roots,
     busyAtArrival |-> appOperation # APP_OPERATION.IDLE,
     disturbed |-> <<appOperation', activeSyncSession', lastCompareContext'>>
                     # <<appOperation, activeSyncSession, lastCompareContext>>]]

Leave(r, pos) == requests' = [requests EXCEPT ![r].pc = pos]

\* The guard without its test.
assertIdleOperation_NoCheck == TRUE

\* assertIdleOperation passes.
assertIdleOperation == appOperation = APP_OPERATION.IDLE

\* if (!leftRoot || !rightRoot) throw
CompareInvalidPayload(r) ==
  /\ Arriving(r)
  /\ UNCHANGED <<appOperation, activeSyncSession, lastCompareContext, nextNonce>>
  /\ Arrive(r, "compare", "rejected", "-")
  /\ UNCHANGED <<engineVars, plannerVars>>

CompareRejectedBusy(r) ==
  /\ Arriving(r)
  /\ ~assertIdleOperation
  /\ UNCHANGED <<appOperation, activeSyncSession, lastCompareContext, nextNonce>>
  /\ Arrive(r, "compare", "rejected", "-")
  /\ UNCHANGED <<engineVars, plannerVars>>

\* setOperation(COMPARING); await buildComparePlan(leftRoot, rightRoot)
CompareStart(r) ==
  /\ Arriving(r)
  /\ assertIdleOperation
  /\ appOperation' = APP_OPERATION.COMPARING
  /\ UNCHANGED <<activeSyncSession, lastCompareContext, nextNonce>>
  /\ \E roots \in RootPairs : Arrive(r, "compare", "comparing", roots)
  /\ UNCHANGED <<engineVars, plannerVars>>

\* createCompareContext(result); lastCompareContext = compareContext; finally
CompareReturns(r) ==
  /\ requests[r].pc = "comparing"
  /\ \E digest \in Digests :
       lastCompareContext' =
         [token |-> nextNonce, roots |-> requests[r].roots, digest |-> digest]
  /\ nextNonce' = nextNonce + 1
  /\ appOperation' = APP_OPERATION.IDLE
  /\ Leave(r, "done")
  /\ UNCHANGED activeSyncSession
  /\ UNCHANGED <<engineVars, plannerVars>>

\* catch: clearCompareContext(); throw; finally setOperation(IDLE)
CompareThrows(r) ==
  /\ requests[r].pc = "comparing"
  /\ lastCompareContext' = NoContext
  /\ appOperation' = APP_OPERATION.IDLE
  /\ Leave(r, "failed")
  /\ UNCHANGED <<activeSyncSession, nextNonce>>
  /\ UNCHANGED <<engineVars, plannerVars>>

\* The three checks dropped: every payload passes.
verifyCompareContextForSync_NoCheck(token, roots, digest) == TRUE

\* verifyCompareContextForSync(payload) passes.
verifyCompareContextForSync(token, roots, digest) ==
  /\ token # 0 /\ lastCompareContext # NoContext /\ token = lastCompareContext.token
  /\ roots = lastCompareContext.roots
  /\ digest = lastCompareContext.digest

SyncRejectedBusy(r) ==
  /\ Arriving(r)
  /\ ~assertIdleOperation
  /\ UNCHANGED <<appOperation, activeSyncSession, lastCompareContext, nextNonce>>
  /\ Arrive(r, "sync", "rejected", "-")
  /\ UNCHANGED <<engineVars, plannerVars>>

SyncRejectedStale(r) ==
  /\ Arriving(r)
  /\ assertIdleOperation
  /\ \E token \in 0..(nextNonce - 1), roots \in RootPairs, digest \in Digests :
       /\ ~verifyCompareContextForSync(token, roots, digest)
       /\ UNCHANGED <<appOperation, activeSyncSession, lastCompareContext, nextNonce>>
       /\ Arrive(r, "sync", "rejected", roots)
  /\ UNCHANGED <<engineVars, plannerVars>>

\* clearCompareContext(); setOperation(SYNCING); runWithSession: it throws when a
\* session is active (and finally sets IDLE), else makes the session and awaits
\* the run.
SyncStart(r) ==
  /\ Arriving(r)
  /\ assertIdleOperation
  /\ \E token \in 0..(nextNonce - 1), roots \in RootPairs, digest \in Digests :
       /\ verifyCompareContextForSync(token, roots, digest)
       /\ lastCompareContext' = NoContext
       /\ IF activeSyncSession.active
          THEN /\ appOperation' = APP_OPERATION.IDLE
               /\ UNCHANGED activeSyncSession
               /\ Arrive(r, "sync", "rejected", roots)
          ELSE /\ appOperation' = APP_OPERATION.SYNCING
               /\ activeSyncSession' = [active |-> TRUE, owner |-> r,
                                        cancelRequested |-> FALSE, paused |-> FALSE]
               /\ Arrive(r, "sync", "syncing", roots)
  /\ UNCHANGED nextNonce
  /\ UNCHANGED <<engineVars, plannerVars>>

\* The run resolves or rejects; finally: if (activeSyncSession === syncSession)
\* activeSyncSession = null; then await appendHistoryFromSyncResult(result).
SyncRunSettles(r) ==
  /\ requests[r].pc = "syncing"
  /\ activeSyncSession' =
       IF activeSyncSession.active /\ activeSyncSession.owner = r
       THEN NoSession ELSE activeSyncSession
  /\ Leave(r, "history")
  /\ UNCHANGED <<appOperation, lastCompareContext, nextNonce>>
  /\ UNCHANGED <<engineVars, plannerVars>>

\* runWithSession returns; the handler's finally: setOperation(IDLE)
SyncReturns(r) ==
  /\ requests[r].pc = "history"
  /\ appOperation' = APP_OPERATION.IDLE
  /\ Leave(r, "done")
  /\ UNCHANGED <<activeSyncSession, lastCompareContext, nextNonce>>
  /\ UNCHANGED <<engineVars, plannerVars>>

\* 'cancel-sync' with a session; without one it returns { requested: false }.
CancelSync ==
  /\ activeSyncSession.active
  /\ activeSyncSession' = [activeSyncSession EXCEPT !.cancelRequested = TRUE]
  /\ UNCHANGED <<appOperation, lastCompareContext, nextNonce, requests>>
  /\ UNCHANGED <<engineVars, plannerVars>>

\* 'toggle-sync-pause' with a session.
ToggleSyncPause ==
  /\ activeSyncSession.active
  /\ activeSyncSession' = [activeSyncSession EXCEPT !.paused = ~activeSyncSession.paused]
  /\ UNCHANGED <<appOperation, lastCompareContext, nextNonce, requests>>
  /\ UNCHANGED <<engineVars, plannerVars>>

\* 'set-selected-directories': other roots than those compared clear the context.
SetSelectedDirectories ==
  /\ lastCompareContext # NoContext
  /\ \E roots \in RootPairs :
       /\ roots # lastCompareContext.roots
       /\ lastCompareContext' = NoContext
  /\ UNCHANGED <<appOperation, activeSyncSession, nextNonce, requests>>
  /\ UNCHANGED <<engineVars, plannerVars>>

NextControl ==
  \/ \E r \in Requests :
       \/ CompareInvalidPayload(r) \/ CompareRejectedBusy(r) \/ CompareStart(r)
       \/ CompareReturns(r) \/ CompareThrows(r)
       \/ SyncRejectedBusy(r) \/ SyncRejectedStale(r) \/ SyncStart(r)
       \/ SyncRunSettles(r) \/ SyncReturns(r)
  \/ CancelSync \/ ToggleSyncPause \/ SetSelectedDirectories

(***************************************************************************)
(* The specifications: the copy engine, the planner and the control        *)
(* surface, each running with the other two at rest.                       *)
(***************************************************************************)
Init == InitEngine /\ InitPlanner /\ InitControl

Next == NextEngine

Spec == Init /\ [][Next]_vars

InitAtRest ==
  /\ Init
  /\ dst = [t \in Targets |-> NoFile]
  /\ continueOnError

SpecPlan == InitAtRest /\ [][NextPlanner]_vars

SpecControl == InitAtRest /\ [][NextControl]_vars

\* buildComparePlan on a source tree and a pair of roots.
SpecScan == InitAtRest /\ [][NextScan]_vars

SpecResync == InitAtRest /\ [][NextResync]_vars

SpecParse == InitAtRest /\ [][NextParse]_vars

SpecDirs == InitAtRest /\ [][NextDirs]_vars

\* One call of syncPlan to its end and beyond, with the pool of workers
\* (the Promise.all branch) or with the sequential loop; the process lives.
PoolStep(w) == WorkerStep(w) \/ LogWriteClosed(w)

NextPool ==
  \/ StartSync
  \/ \E w \in Workers : PoolStep(w)
  \/ SettleAbort \/ SettleSuccess
  \/ RequestCancel

\* syncPlan and resumeSyncFromJournal called with a plan of the caller's.
InitWithCallerPlan == InitCallerPlan /\ InitPlanner /\ InitControl

SpecCallerPlan == InitWithCallerPlan /\ [][NextEngine]_vars

InitWithPool == (InitPool \/ InitEngine) /\ InitPlanner /\ InitControl

SpecPool == InitWithPool /\ [][NextPool]_vars

\* The item loops of syncPlan on a plan of four files of either size class,
\* sorted by targetRelativePath.  A transaction is taken as a whole: the
\* promise of processItemWithRetryAndFailureHandling resolves or rejects.
SchedulePlan == <<"a.bin", "b.txt", "c.txt", "d.bin">>

\* The options of the call: any worker limit up to the default, either mode,
\* any split of the plan by smallFileThresholdBytes.
InitSchedule ==
  /\ dst = [t \in Targets |-> NoFile]
  /\ orig = dst
  /\ continueOnError \in BOOLEAN
  /\ maxParallelSmallFiles \in 1..DEFAULT_MAX_PARALLEL_SMALL_FILES
  /\ targetPath = planOfCompare
  /\ largeFiles \in SUBSET SeqToSet(SchedulePlan)
  /\ pause = FALSE
  /\ faults = 0
  /\ InitRun
  /\ InitPlanner
  /\ InitControl

\* The transaction of item[w] ends and the worker goes on: the copy has
\* succeeded, or it has failed and continueOnError keeps the run going.
ItemResolves(w) ==
  /\ Alive /\ pc[w] = "begin"
  /\ pc' = [pc EXCEPT ![w] = "idle"]
  /\ UNCHANGED <<diskVars, fixedVars, cancel, runVars, envVars>>
  /\ UNCHANGED <<item, attempt, retryEvents, backupPath, error, chunks>>

\* The transaction of item[w] throws: SYNC_CANCELLED once the caller has
\* cancelled, the item's error when continueOnError is off.
ItemRejects(w) ==
  /\ Alive /\ pc[w] = "begin"
  /\ \E code \in {"SYNC_CANCELLED", "ENOSPC"} :
       /\ code = "SYNC_CANCELLED" => cancel
       /\ code # "SYNC_CANCELLED" => ~continueOnError
       /\ Reject(w, code)
  /\ UNCHANGED <<diskVars, fixedVars, cancel, envVars>>
  /\ UNCHANGED <<phase, journalState, queue, total, completed, succeededFiles, failed,
                 workerCount, outcome, resumeFromJournal, recoverTodo, bytesTransferred, syncLogWriteChain, partialResult, largeTodo, journalWriteChain>>
  /\ UNCHANGED <<item, attempt, retryEvents, backupPath, error, chunks>>

StartSchedule ==
  /\ phase = "new"
  /\ SyncPlanBegin(SchedulePlan, createInitialJournalState, FALSE)
  /\ UNCHANGED <<dst, bak, logLines, fixedVars, cancel, recoverTodo, envVars>>

NextSchedule ==
  \/ StartSchedule
  \/ \E w \in Workers :
       \/ NextItemCancelled(w) \/ NextItem(w) \/ WorkerResolve(w)
       \/ ItemResolves(w) \/ ItemRejects(w)
  \/ LargeLoop
  \/ SettleAbort \/ SettleSuccess
  \/ RequestCancel

SpecSchedule == InitSchedule /\ [][NextSchedule]_vars

\* One sequential call of syncPlan in which more calls of the filesystem may
\* fail than in the other specifications: RetryFaults more, enough for every
\* attempt of one item to fail.
InitRetry ==
  /\ dst \in PoolDestinations
  /\ orig = dst
  /\ continueOnError \in BOOLEAN
  /\ maxParallelSmallFiles = 1
  /\ targetPath = planOfCompare
  /\ largeFiles = {}
  /\ pause = FALSE
  /\ faults = 0 - RetryFaults
  /\ InitRun
  /\ InitPlanner
  /\ InitControl

NextRetry ==
  \/ StartSync
  \/ \E w \in Workers : WorkerStep(w)
  \/ SettleAbort \/ SettleSuccess
  \/ RequestCancel

SpecRetry == InitRetry /\ [][NextRetry]_vars

\* The caller's pause flag flips while a sync runs (main.js
\* 'toggle-sync-pause': activeSyncSession.paused = !activeSyncSession.paused).
TogglePause ==
  /\ phase = "running"
  /\ pause' = ~pause
  /\ UNCHANGED <<diskVars, continueOnError, maxParallelSmallFiles, targetPath, largeFiles>>
  /\ UNCHANGED <<cancel, runVars, workerVars, envVars, plannerVars, controlVars>>

\* One call of syncPlan, pooled or sequential, that the caller may pause,
\* resume and cancel at any moment.
NextPause == NextPool \/ TogglePause

SpecPause == InitWithPool /\ [][NextPause]_vars

(***************************************************************************)
(* The journal write chain.  queueJournalWrite appends a write to          *)
(* journalWriteChain and awaits it; each write of the chain serializes     *)
(* journalState as it stands when the write is made.  The transactions of  *)
(* a pool are followed on their path without errors, one action per        *)
(* mutation of journalState.                                               *)
(***************************************************************************)
\* A write that is taken as settled as soon as it is queued.
writeSettled_NotAwaited(w) == TRUE

\* await journalWriteChain: the write worker w queued has been made.
writeSettled(w) == w \notin SeqToSet(journalWriteChain)

\* journalWriteChain = journalWriteChain.then(() => writeSyncJournal(...))
queueJournalWrite(w, state) ==
  /\ journalState' = state
  /\ journalWriteChain' = Append(journalWriteChain, w)

ChainFrame ==
  /\ UNCHANGED <<fixedVars, cancel, envVars>>
  /\ UNCHANGED <<phase, queue, total, failed, workerCount, abortError, outcome,
                 resumeFromJournal, recoverTodo, bytesTransferred, syncLogWriteChain,
                 partialResult, largeTodo>>
  /\ UNCHANGED <<item, attempt, retryEvents, error, chunks>>

\* The head of the chain: writeSyncJournal(journalPath, journalState).
ChainWrite ==
  /\ Alive /\ journalWriteChain # <<>>
  /\ journalFile' = journalState
  /\ journalWriteChain' = Tail(journalWriteChain)
  /\ UNCHANGED <<dst, bak, logLines, journalState, completed, succeededFiles>>
  /\ UNCHANGED <<pc, backupPath>>
  /\ ChainFrame

\* processItemAttempt: activeEntries[targetPath] = {..., backupPath: ''}.
ChainBegin(w) ==
  /\ Alive /\ pc[w] = "begin"
  /\ queueJournalWrite(w, [journalState EXCEPT !.activeEntries[item[w]] = NoBackupPath])
  /\ backupPath' = [backupPath EXCEPT ![w] = NoBackupPath]
  /\ pc' = [pc EXCEPT ![w] = "awaitActive"]
  /\ UNCHANGED <<diskVars, completed, succeededFiles>>
  /\ ChainFrame

\* The await of queueJournalWrite returns.
ChainAwait(w) ==
  /\ Alive /\ pc[w] \in {"awaitActive", "awaitBackup", "awaitDone"}
  /\ writeSettled(w)
  /\ pc' = [pc EXCEPT ![w] = CASE pc[w] = "awaitActive" -> "backup"
                                [] pc[w] = "awaitBackup" -> "copy"
                                [] pc[w] = "awaitDone" -> "log"]
  /\ UNCHANGED <<diskVars, journalState, journalWriteChain, completed, succeededFiles, backupPath>>
  /\ ChainFrame

\* fs.stat(targetPath); a regular file is renamed to the backup and the
\* active entry takes the backupPath.
ChainBackup(w) ==
  /\ Alive /\ pc[w] = "backup"
  /\ IF IsRegularFile(dst[item[w]])
     THEN /\ bak' = [bak EXCEPT ![item[w]] = dst[item[w]]]
          /\ dst' = [dst EXCEPT ![item[w]] = NoFile]
          /\ backupPath' = [backupPath EXCEPT ![w] = BackupPathOf]
          /\ queueJournalWrite(w, [journalState EXCEPT !.activeEntries[item[w]] = BackupPathOf])
          /\ pc' = [pc EXCEPT ![w] = "awaitBackup"]
     ELSE /\ pc' = [pc EXCEPT ![w] = "copy"]
          /\ UNCHANGED <<dst, bak, backupPath, journalState, journalWriteChain>>
  /\ UNCHANGED <<journalFile, logLines, completed, succeededFiles>>
  /\ ChainFrame

\* copyFileWithProgress: the target is opened with 'wx' and written.
ChainCopy(w) ==
  /\ Alive /\ pc[w] = "copy"
  /\ dst' = [dst EXCEPT ![item[w]] = FullCopy]
  /\ pc' = [pc EXCEPT ![w] = "cleanup"]
  /\ UNCHANGED <<bak, journalFile, logLines, journalState, journalWriteChain,
                 completed, succeededFiles, backupPath>>
  /\ ChainFrame

\* fs.unlink(backupPath); completed += 1; the completion is queued.
ChainComplete(w) ==
  /\ Alive /\ pc[w] = "cleanup"
  /\ bak' = IF backupPath[w] = NoBackupPath THEN bak ELSE [bak EXCEPT ![item[w]] = NoFile]
  /\ backupPath' = [backupPath EXCEPT ![w] = NoBackupPath]
  /\ completed' = completed + 1
  /\ succeededFiles' = Append(succeededFiles, item[w])
  /\ queueJournalWrite(w, [journalState EXCEPT
                             !.completedTargetPaths = @ \cup {item[w]},
                             !.activeEntries[item[w]] = NotActive])
  /\ pc' = [pc EXCEPT ![w] = "awaitDone"]
  /\ UNCHANGED <<dst, journalFile, logLines>>
  /\ ChainFrame

\* queueSyncLogWrite(line)
ChainLog(w) ==
  /\ Alive /\ pc[w] = "log"
  /\ logLines' = [logLines EXCEPT ![item[w]] = @ + 1]
  /\ pc' = [pc EXCEPT ![w] = "idle"]
  /\ UNCHANGED <<dst, bak, journalFile, journalState, journalWriteChain,
                 completed, succeededFiles, backupPath>>
  /\ ChainFrame

InitChain ==
  /\ dst \in [Targets -> {NoFile, OldFile}]
  /\ orig = dst
  /\ continueOnError = TRUE
  /\ maxParallelSmallFiles \in 1..DEFAULT_MAX_PARALLEL_SMALL_FILES
  /\ targetPath = planOfCompare
  /\ largeFiles = {}
  /\ pause = FALSE
  /\ faults = MaxFaults
  /\ InitRun
  /\ InitPlanner
  /\ InitControl

NextChain ==
  \/ StartSync
  \/ \E w \in Workers :
       \/ NextItem(w) \/ WorkerResolve(w)
       \/ ChainBegin(w) \/ ChainAwait(w) \/ ChainBackup(w)
       \/ ChainCopy(w) \/ ChainComplete(w) \/ ChainLog(w)
  \/ ChainWrite
  \/ SettleSuccess

SpecChain == InitChain /\ [][NextChain]_vars

(***************************************************************************)
(* File handles.  One sequential call of syncPlan on a plan of four files: *)
(* the history log is opened before the loops and closed in the finally    *)
(* block; copyFileWithProgress opens the source, then the target, and      *)
(* closes both in the finally of its try block.                            *)
(***************************************************************************)
HandleFrame ==
  /\ UNCHANGED <<engineVars, controlVars>>
  /\ UNCHANGED <<comparePhase, leftFiles, rightSizeByRelativePath, rightDirKind, scanned,
                 bestByTargetRelativePath, plan, directoriesToCreate, compareError>>
  /\ UNCHANGED <<compareRoots, leftTree, rightTree, syncs, parseVars, dirVars, inputVars>>

\* Where the call goes when the transaction of an item has thrown an error
\* that is not a cancel: on to the next item, or out of the loops.
afterItemError == IF continueOnError THEN "next" ELSE "finally"

\* syncLogHandle = await fs.open(syncLogPath, 'a')
OpenSyncLog ==
  /\ copyStep = "new"
  /\ syncLogHandle' = syncLogHandle + 1
  /\ copiesLeft' = Len(SchedulePlan)
  /\ copyStep' = "next"
  /\ UNCHANGED <<sourceHandle, targetHandle, position>>
  /\ HandleFrame

\* The open throws: SYNC_LOG_ERROR, before the try block of syncPlan.
OpenSyncLogFails ==
  /\ copyStep = "new"
  /\ copyStep' = "settled"
  /\ UNCHANGED <<sourceHandle, targetHandle, syncLogHandle, position, copiesLeft>>
  /\ HandleFrame

\* const sourceHandle = await fs.open(sourcePath, 'r')
OpenSource ==
  /\ copyStep = "next" /\ copiesLeft > 0
  /\ copiesLeft' = copiesLeft - 1
  /\ sourceHandle' = sourceHandle + 1
  /\ copyStep' = "openTarget"
  /\ UNCHANGED <<targetHandle, syncLogHandle, position>>
  /\ HandleFrame

\* The transaction throws before the copy, or fs.open(sourcePath) throws.
OpenSourceFails ==
  /\ copyStep = "next" /\ copiesLeft > 0
  /\ copiesLeft' = copiesLeft - 1
  /\ copyStep' = afterItemError
  /\ UNCHANGED <<sourceHandle, targetHandle, syncLogHandle, position>>
  /\ HandleFrame

\* const targetHandle = await fs.open(targetPath, writeFlags)
OpenTarget ==
  /\ copyStep = "openTarget"
  /\ targetHandle' = targetHandle + 1
  /\ position' = 0
  /\ copyStep' = "loop"
  /\ UNCHANGED <<sourceHandle, syncLogHandle, copiesLeft>>
  /\ HandleFrame

\* fs.open(targetPath, 'wx') throws (EEXIST, EACCES, ENOSPC, ...): the call
\* stands before the try block whose finally closes the handles.
OpenTargetFails ==
  /\ copyStep = "openTarget"
  /\ copyStep' = afterItemError
  /\ UNCHANGED <<sourceHandle, targetHandle, syncLogHandle, position, copiesLeft>>
  /\ HandleFrame

\* One chunk read and written.
CopyLoopChunk ==
  /\ copyStep = "loop" /\ position < FileChunks
  /\ position' = position + 1
  /\ UNCHANGED <<copyStep, sourceHandle, targetHandle, syncLogHandle, copiesLeft>>
  /\ HandleFrame

\* finally { Promise.all([sourceHandle.close(), targetHandle.close()]) }
closeCopyHandles ==
  /\ sourceHandle' = sourceHandle - 1
  /\ targetHandle' = targetHandle - 1

\* The read returns 0 bytes: break, finally.
CopyLoopEnds ==
  /\ copyStep = "loop" /\ position = FileChunks
  /\ closeCopyHandles
  /\ copyStep' = "next"
  /\ UNCHANGED <<syncLogHandle, position, copiesLeft>>
  /\ HandleFrame

\* The loop throws: SYNC_CANCELLED from a cancel check or from
\* waitForUnpaused, or the error of a read or a write.
CopyLoopThrows ==
  /\ copyStep = "loop"
  /\ closeCopyHandles
  /\ \E cancelled \in BOOLEAN :
       copyStep' = IF cancelled THEN "finally" ELSE afterItemError
  /\ UNCHANGED <<syncLogHandle, position, copiesLeft>>
  /\ HandleFrame

\* The finally block of syncPlan: syncLogHandle.close().
SettleHandles ==
  /\ copyStep = "finally" \/ (copyStep = "next" /\ copiesLeft = 0)
  /\ syncLogHandle' = 0
  /\ copyStep' = "settled"
  /\ UNCHANGED <<sourceHandle, targetHandle, position, copiesLeft>>
  /\ HandleFrame

NextHandles ==
  \/ OpenSyncLog \/ OpenSyncLogFails
  \/ OpenSource \/ OpenSourceFails
  \/ OpenTarget \/ OpenTargetFails
  \/ CopyLoopChunk \/ CopyLoopEnds \/ CopyLoopThrows
  \/ SettleHandles

InitHandles == Init /\ dst = [t \in Targets |-> NoFile]

SpecHandles == InitHandles /\ [][NextHandles]_vars

\* syncPlan called with any plan argument.
SpecEntry == InitAtRest /\ [][NextEntry]_vars

\* The engine with calls of syncPlan that follow an interrupted run.
NextRestart == NextEngine \/ SyncPlanOverJournal

SpecRestart == Init /\ [][NextRestart]_vars

\* The same call, with the failures of syncPlan's setup.
NextSetup ==
  \/ StartSync \/ SyncLogOpenFails
  \/ \E w \in Workers : PoolStep(w)
  \/ SettleAbort \/ SettleSuccess
  \/ RequestCancel

SpecSetup == InitWithPool /\ [][NextSetup]_vars

(***************************************************************************)
(* Properties of the copy engine, checked under Spec.                      *)
(***************************************************************************)
Settled == phase = "settled"

FaultFree == faults = 0 /\ \A t \in Targets : orig[t] # NotAFile

\* C1: whenever an attempt of processItemAttempt has ended in failure or
\* cancellation, the target holds either what it held before the run (absent
\* only if it was absent) or the complete source content.
C1_Atomicity ==
  \A w \in Workers :
    pc[w] = "thrown" => dst[item[w]] \in {orig[item[w]], FullCopy}

C5_RecoveryConvergence ==
  (Settled /\ resumeFromJournal /\ outcome = "ok" /\ FaultFree /\ failed = <<>>) =>
    /\ \A t \in Targets : dst[t] = FullCopy /\ bak[t] = NoFile
    /\ ~journalFile.present

C7_ActiveEntriesSound ==
  journalFile.present =>
    \A t \in Targets :
      journalFile.activeEntries[t] # NotActive =>
        \/ journalFile.activeEntries[t] = BackupPathOf /\ bak[t] # NoFile
        \/ journalFile.activeEntries[t] = NoBackupPath /\ ~destAtStart[t]

\* C8: every target the persisted journal lists as completed has a destination
\* file of exactly source_size bytes; no later step removes or truncates it.
C8_CompletedSound ==
  journalFile.present =>
    \A t \in journalFile.completedTargetPaths :
      IsRegularFile(dst[t]) /\ FileSize(dst[t]) = sourceSize(t)

\* C9: in every journal state, persisted or in memory, each target is in at
\* most one of completed, active and failed (and pending when in none).
InOneStatus(state, t) ==
  Cardinality({k \in {"completed", "active", "failed"} :
                 \/ k = "completed" /\ t \in state.completedTargetPaths
                 \/ k = "active" /\ state.activeEntries[t] # NotActive
                 \/ k = "failed" /\ t \in state.failed}) <= 1

C9_StatusPartition ==
  /\ journalFile.present => \A t \in Targets : InOneStatus(journalFile, t)
  /\ journalState.present => \A t \in Targets : InOneStatus(journalState, t)

(***************************************************************************)
(* Properties of the planner, checked under SpecPlan.                      *)
(***************************************************************************)
\* The scanned source files that map to a target.
candidatesOf(target) ==
  {j \in 1..Len(leftFiles) : targetRelativePathOf(leftFiles[j].relativePath) = target}

planTargets == {plan[i].targetRelativePath : i \in 1..Len(plan)}

\* C2: the source of every plan item that buildComparePlan returns is a
\* scanned source file that maps to the item's target and whose parsed version
\* is the maximum over all scanned files mapping to that target.
C2_HighestVersionWins ==
  comparePhase = "done" =>
    \A i \in 1..Len(plan) :
      \E j \in candidatesOf(plan[i].targetRelativePath) :
        /\ leftFiles[j].relativePath = plan[i].sourceRelativePath
        /\ leftFiles[j].size = plan[i].sourceSize
        /\ versionOf(leftFiles[j].relativePath) = plan[i].version
        /\ \A k \in candidatesOf(plan[i].targetRelativePath) :
             versionOf(leftFiles[k].relativePath) <= plan[i].version

\* A lower version was enumerated after the highest one, which is in the plan.
C2_Witness ==
  /\ comparePhase = "done"
  /\ \E i \in 1..Len(plan) :
       /\ plan[i].version = 10
       /\ \E j, k \in candidatesOf(plan[i].targetRelativePath) :
            /\ j < k
            /\ versionOf(leftFiles[j].relativePath) = 10
            /\ versionOf(leftFiles[k].relativePath) = 2

\* C3: a target is in the returned plan if and only if the destination scan
\* has no file at its path or has one whose size differs from the size of the
\* source chosen for it; nothing but the sizes decides it.
C3_SizeOnlyEquality ==
  comparePhase = "done" =>
    /\ \A e \in 1..Len(bestByTargetRelativePath) :
         LET entry == bestByTargetRelativePath[e]
         IN entry.targetRelativePath \in planTargets <=>
              \/ entry.targetRelativePath \notin DOMAIN rightSizeByRelativePath
              \/ rightSizeByRelativePath[entry.targetRelativePath] # entry.sourceSize
    /\ \A t \in planTargets : candidatesOf(t) # {}
    /\ {bestByTargetRelativePath[e].targetRelativePath :
          e \in 1..Len(bestByTargetRelativePath)}
         = {targetRelativePathOf(leftFiles[j].relativePath) : j \in 1..Len(leftFiles)}

\* One target is left out for its equal size, another is planned for a
\* destination file of another size.
C3_Witness ==
  /\ comparePhase = "done"
  /\ \E e \in 1..Len(bestByTargetRelativePath) :
       LET entry == bestByTargetRelativePath[e]
       IN /\ entry.targetRelativePath \in DOMAIN rightSizeByRelativePath
          /\ rightSizeByRelativePath[entry.targetRelativePath] = entry.sourceSize
          /\ entry.targetRelativePath \notin planTargets
  /\ \E i \in 1..Len(plan) :
       /\ plan[i].destinationExists
       /\ rightSizeByRelativePath[plan[i].targetRelativePath] # plan[i].sourceSize

(***************************************************************************)
(* Properties of the control surface, checked under SpecControl.           *)
(***************************************************************************)
InFlight == {r \in Requests : requests[r].pc \in {"comparing", "syncing", "history"}}

SyncSessions == {r \in Requests : requests[r].pc = "syncing"}

\* C10: a 'sync-plan' or 'compare-trees' request that arrives while a compare
\* or sync is running is rejected and changes nothing; never are two handlers
\* past the guard nor two sync sessions active; and the operation flag is idle
\* whenever no compare or sync handler is in flight.
C10_OneSyncAtATime ==
  /\ \A r \in Requests :
       requests[r].busyAtArrival =>
         requests[r].pc = "rejected" /\ ~requests[r].disturbed
  /\ Cardinality(InFlight) <= 1
  /\ Cardinality(SyncSessions) <= 1
  /\ activeSyncSession.active <=> activeSyncSession.owner \in SyncSessions
  /\ appOperation # APP_OPERATION.IDLE <=> InFlight # {}

\* A sync is running and a later 'sync-plan' and 'compare-trees' were rejected.
C10_Witness ==
  /\ activeSyncSession.active
  /\ \E r, q \in Requests :
       /\ requests[r].kind = "sync" /\ requests[r].busyAtArrival
       /\ requests[r].pc = "rejected"
       /\ requests[q].kind = "compare" /\ requests[q].busyAtArrival
       /\ requests[q].pc = "rejected"

(***************************************************************************)
(* C11.  Cancellation stops new work.  While shouldCancel() answers true,  *)
(* no step takes an item from the queue, none enters a copy transaction    *)
(* and none begins a retry attempt; and a call of syncPlan in which        *)
(* shouldCancel() has returned true to the runner rejects with             *)
(* SYNC_CANCELLED.                                                         *)
(***************************************************************************)
C11_NoNewWorkStep ==
  (cancel /\ cancel') =>
    /\ queue' = queue
    /\ attempt' = attempt
    /\ \A w \in Workers : pc'[w] = "preflight" => pc[w] = "preflight"

C11_CancelStopsNewWork ==
  /\ [][C11_NoNewWorkStep]_vars
  /\ [](Settled /\ cancelSeen => outcome = "SYNC_CANCELLED")

\* Cancel was requested while a worker copied and another item waited; the
\* restore of the rollback failed, and the run is settled as cancelled with
\* the waiting item never started.
C11_Witness ==
  /\ Settled /\ cancelSeen /\ outcome = "SYNC_CANCELLED"
  /\ \E w \in Workers : cancelAt[w][1] = "copy" /\ error[w] = "RESTORE_FAILED"
  /\ queue # <<>>

(***************************************************************************)
(* C12.  The runner drains before it settles: once syncPlan has returned   *)
(* or rejected, no copy transaction of the run is still executing, so that *)
(* no later step changes a destination file, a backup, the journal or the  *)
(* history log.                                                            *)
(***************************************************************************)
C12_NoMutationAfterSettle ==
  (Settled /\ phase' = "settled") => UNCHANGED diskVars

C12_DrainsBeforeSettle == [][C12_NoMutationAfterSettle]_vars

(***************************************************************************)
(* C13.  bytesCopied counts successful files only: the partialResult of a  *)
(* call that was cancelled or aborted has bytesCopied equal to the sum of  *)
(* the sizes of the files in succeededFiles; what was written for a file   *)
(* that was rolled back is not in it.                                      *)
(***************************************************************************)
\* buildResult().bytesCopied
bytesCopied == bytesTransferred

RECURSIVE sizeOfFiles(_)
sizeOfFiles(files) ==
  IF files = <<>> THEN 0 ELSE sourceSize(Head(files)) + sizeOfFiles(Tail(files))

C13_BytesCopiedSuccessOnly ==
  (Settled /\ outcome # "ok") => bytesCopied = sizeOfFiles(succeededFiles)

(***************************************************************************)
(* C14.  Path-escape rejection: syncPlan with a rightRoot touches no file  *)
(* of a plan item whose targetPath is not inside rightRoot: no such file   *)
(* is created, renamed or deleted.                                         *)
(***************************************************************************)
\* Lexical normalization: "." goes, ".." takes the component before it.
RECURSIVE normalizeOnto(_, _)
normalizeOnto(done, rest) ==
  IF rest = <<>> THEN done
  ELSE IF Head(rest) = "." THEN normalizeOnto(done, Tail(rest))
  ELSE IF Head(rest) = ".." /\ done # <<>> /\ done[Len(done)] # ".."
       THEN normalizeOnto(SubSeq(done, 1, Len(done) - 1), Tail(rest))
  ELSE normalizeOnto(Append(done, Head(rest)), Tail(rest))

\* candidate, normalized, has root as a prefix on component boundaries.
is_path_within(root, candidate) ==
  LET c == normalizeOnto(<<>>, candidate)
  IN  Len(c) >= Len(root) /\ SubSeq(c, 1, Len(root)) = root

C14_NoWriteOutsideRoot ==
  \A t \in Targets :
    ~is_path_within(rightRoot, targetPath[t]) => (dst[t] = orig[t] /\ bak[t] = NoFile)

(***************************************************************************)
(* C15.  Root-safety preconditions: buildComparePlan produces no plan for  *)
(* a source or destination that is a filesystem root, for a source and     *)
(* destination that are equal or nested in one another, or for a root      *)
(* whose final component is a symbolic link.                               *)
(***************************************************************************)
isFilesystemRoot(p) == p = <<>>

rootsAreSafe(roots) ==
  /\ ~isFilesystemRoot(roots.left) /\ ~isFilesystemRoot(roots.right)
  /\ ~is_path_within(roots.left, roots.right)
  /\ ~is_path_within(roots.right, roots.left)
  /\ roots.left \notin RootSymlinks /\ roots.right \notin RootSymlinks

C15_RootSafety == comparePhase = "done" => rootsAreSafe(compareRoots)

(***************************************************************************)
(* C16.  Scan exclusion: the candidates of buildComparePlan are exactly    *)
(* the regular files of the source tree that are not hidden, not a         *)
(* well-known system file, have a usable extension and lie under           *)
(* directories that are neither hidden, system names nor symbolic links;   *)
(* every plan item has such a file as its source.                          *)
(***************************************************************************)
\* name starts with "." or is, in lower case, one of the well-known names.
is_ignored(name) ==
  \/ (Len(name) >= 1 /\ Head(name) = ".")
  \/ toLowerCase(name) \in IGNORED_FILE_NAMES

\* The last "." is not the first character and a character follows it.
has_usable_extension(name) ==
  \E i \in 2..(Len(name) - 1) :
    name[i] = "." /\ \A j \in (i + 1)..Len(name) : name[j] # "."

\* relPath is the root or a chain of directories, none ignored, none a link.
RECURSIVE isScannedDirectory(_, _)
isScannedDirectory(tree, relPath) ==
  \/ relPath = <<>>
  \/ \E i \in 1..Len(tree) :
       /\ tree[i].kind = "dir" /\ ~is_ignored(tree[i].name)
       /\ joinPath(tree[i].parent, tree[i].name) = relPath
       /\ isScannedDirectory(tree, tree[i].parent)

candidateFiles(tree) ==
  {joinPath(tree[i].parent, tree[i].name) : i \in
     {k \in 1..Len(tree) :
        /\ tree[k].kind = "file"
        /\ ~is_ignored(tree[k].name)
        /\ has_usable_extension(tree[k].name)
        /\ isScannedDirectory(tree, tree[k].parent)}}

C16_ScanExclusion ==
  (compareRoots # NoRoots /\ comparePhase # "failed") =>
    /\ {leftFiles[i].relativePath : i \in 1..Len(leftFiles)} = candidateFiles(leftTree)
    /\ \A i \in 1..Len(plan) : plan[i].sourceRelativePath \in candidateFiles(leftTree)

\* A plan of one item from a tree that also holds a hidden file and a link.
C16_Witness ==
  /\ comparePhase = "done" /\ Len(plan) = 1
  /\ \E i, j \in 1..Len(leftTree) :
       /\ leftTree[i].kind = "link"
       /\ leftTree[j].kind = "file" /\ is_ignored(leftTree[j].name)

(***************************************************************************)
(* C17.  continue_on_error policy.  With continueOnError, a call that was  *)
(* not cancelled returns normally with each plan item once in exactly one  *)
(* of succeededFiles and failed.  Without it, the first item failure       *)
(* rejects the call with that item's error: the items already executed     *)
(* are fully written and no later item was started.                        *)
(***************************************************************************)
occurrences(files, t) == Cardinality({i \in 1..Len(files) : files[i] = t})

C17_ContinueOnErrorPolicy ==
  (Settled /\ crashes = 0 /\ resumes = 0 /\ ~cancel) =>
    IF continueOnError
    THEN /\ outcome = "ok"
         /\ \A t \in Targets : occurrences(succeededFiles, t) + occurrences(failed, t) = 1
    ELSE outcome # "ok" =>
           /\ Len(failed) = 1
           /\ \E w \in Workers : item[w] = failed[1] /\ outcome = rejectionCode(error[w])
           /\ \A i \in 1..Len(succeededFiles) :
                succeededFiles[i] # failed[1] => dst[succeededFiles[i]] = FullCopy
           /\ \A i \in 1..Len(queue) : dst[queue[i]] = orig[queue[i]]
           /\ Len(succeededFiles) + Len(queue) + 1 >= Len(PlanTargets)

(***************************************************************************)
(* C18.  RESTORE_FAILED is fatal and surfaced verbatim: when a rollback    *)
(* could not rename the backup back to the target, the worker's next step  *)
(* aborts the run with RESTORE_FAILED, whatever continueOnError is and     *)
(* whether or not cancel is set; the error is neither replaced by          *)
(* SYNC_CANCELLED nor recorded as an item failure of a run that goes on.   *)
(***************************************************************************)
C18_RestoreFailedStep ==
  \A w \in Workers :
    (pc[w] = "thrown" /\ error[w] = "RESTORE_FAILED" /\ pc'[w] # "thrown"
       /\ phase' # "crashed") =>
      (pc'[w] = "rejected" /\ abortError' = "RESTORE_FAILED")

C18_RestoreFailedIsFatal == [][C18_RestoreFailedStep]_vars

(***************************************************************************)
(* C19.  Partial result on every abort: every error with which syncPlan    *)
(* rejects carries details.partialResult, the result built from the        *)
(* counters and lists accumulated so far.                                  *)
(***************************************************************************)
C19_PartialResultOnAbort ==
  (Settled /\ outcome \notin {"none", "ok"}) => partialResult # <<>>

(***************************************************************************)
(* C20.  History log: with a non-empty leftRoot, after any sequence of     *)
(* runs sync-history.log holds exactly one line per transaction that       *)
(* succeeded (its copy is committed at the target and stays there) and no  *)
(* line for a transaction that failed, was retried and failed or was       *)
(* cancelled; the lines of earlier runs are kept.                          *)
(***************************************************************************)
\* The transaction of target t has succeeded in some run: the journal has
\* recorded its completion (or the finished run has removed the journal) and
\* the copy is at the target.
succeededTransaction(t) == dst[t] = FullCopy

C20_HistoryLog ==
  (Settled /\ Quiescent) =>
    \A t \in Targets : logLines[t] = IF succeededTransaction(t) THEN 1 ELSE 0

(***************************************************************************)
(* C21.  Journal lifecycle: the journal file is deleted only when the run  *)
(* ends with every plan item completed, so once a run has settled an       *)
(* absent journal means that no plan item is left unfinished: none is      *)
(* pending, none is recorded as failed, none has an active entry.          *)
(***************************************************************************)
noItemUnfinished(state) ==
  /\ pendingCount(state) = 0
  /\ state.failed = {}
  /\ \A t \in Targets : state.activeEntries[t] = NotActive

C21_JournalLifecycle ==
  (Settled /\ ~journalFile.present) => noItemUnfinished(journalState)

(***************************************************************************)
(* C22.  Idempotence: after syncPlan has fully succeeded on the plan of    *)
(* buildComparePlan(L, R) and L is unchanged, buildComparePlan(L, R)       *)
(* returns an empty plan and an empty directoriesToCreate.                 *)
(***************************************************************************)
C22_Idempotence ==
  (syncs = 1 /\ comparePhase = "done") => (plan = <<>> /\ directoriesToCreate = <<>>)

(***************************************************************************)
(* C23.  parseVersionedName: a file name is versioned if and only if it    *)
(* has the form <stem>_v<digits>.<ext> (v or V, one or more decimal        *)
(* digits, a non-empty extension without a dot); then targetFileName is    *)
(* <stem>.<ext> and version is the base-10 value of the digits.  Every     *)
(* other name, a name without an extension included, yields version 0,     *)
(* isVersioned = false and targetFileName equal to the name.               *)
(***************************************************************************)
\* ^(?<stem>.*)_v(?<digits>\d+)\.(?<ext>[^.]+)$ matches with k digits.
matchesVersionedForm(name, k) ==
  LET d == LastIndexOf(name, ".")
  IN /\ k >= 1 /\ d - k - 2 >= 1 /\ d < Len(name)
     /\ \A i \in (d - k)..(d - 1) : name[i] \in Digits
     /\ name[d - k - 1] \in {"v", "V"}
     /\ name[d - k - 2] = "_"

versionedNameOf(name) ==
  IF \E k \in 1..Len(name) : matchesVersionedForm(name, k)
  THEN LET k == CHOOSE k \in 1..Len(name) : matchesVersionedForm(name, k)
           d == LastIndexOf(name, ".")
       IN [targetFileName |-> SubSeq(name, 1, d - k - 3) \o SubSeq(name, d, Len(name)),
           version |-> parseInt(SubSeq(name, d - k, d - 1)),
           isVersioned |-> TRUE]
  ELSE [targetFileName |-> name, version |-> 0, isVersioned |-> FALSE]

C23_ParseVersionedName == parsed = versionedNameOf(parsedFileName)

(***************************************************************************)
(* C24.  Destination directories: buildComparePlan lists in               *)
(* directoriesToCreate, sorted, the directory of every plan item that is   *)
(* missing under rightRoot and no directory that exists; syncPlan makes    *)
(* every listed directory before the first transaction opens its target,   *)
(* so no transaction fails because the directory of its target is missing. *)
(***************************************************************************)
listedDirectories == {directoriesToCreate[k] : k \in 1..Len(directoriesToCreate)}

C24_DestinationDirectories ==
  /\ (comparePhase = "done" /\ mkdirDone = 0) =>
       /\ \A i \in 1..Len(plan) :
            statDir(rightDirs, dirname(plan[i].targetRelativePath)) # "dir"
              => dirname(plan[i].targetRelativePath) \in listedDirectories
       /\ \A d \in listedDirectories : statDir(rightDirs, d) = "ENOENT"
       /\ \A k, l \in 1..Len(directoriesToCreate) :
            k < l => localeCompareLess(directoriesToCreate[k], directoriesToCreate[l])
  /\ opened > 0 =>
       /\ mkdirDone = Len(directoriesToCreate)
       /\ \A d \in listedDirectories : statDir(rightDirs, d) = "dir"
  /\ openError = "none"

C24_Witness ==
  /\ Len(directoriesToCreate) = 2
  /\ <<"s", "/", "t">> \in listedDirectories
  /\ statDir(rightDirs, <<"s">>) = "dir"
  /\ opened = Len(plan)
  /\ \E i \in 1..Len(plan) : dirname(plan[i].targetRelativePath) = <<"s", "/", "t">>

(***************************************************************************)
(* C25.  Commit postcondition: immediately after the transaction of a      *)
(* target t has succeeded, the journal has no active entry for t, t is in  *)
(* completedTargetPaths, and no temporary backup file of t remains in the  *)
(* destination directory.                                                  *)
(***************************************************************************)
C25_TransactionSucceeds ==
  \A w \in Workers :
    (pc[w] = "log" /\ pc'[w] = "idle") =>
      /\ journalFile'.activeEntries[item[w]] = NotActive
      /\ item[w] \in journalFile'.completedTargetPaths
      /\ bak'[item[w]] = NoFile

C25_CommitPostcondition == [][C25_TransactionSucceeds]_vars

(***************************************************************************)
(* C26.  A transaction that fails before any backup was taken (the source  *)
(* is unreadable at preflight, the destination is not a regular file, the  *)
(* backup rename fails) leaves the destination path as it was: the file    *)
(* that was there is neither deleted nor modified by the rollback.         *)
(***************************************************************************)
C26_RollbackKeepsDestination ==
  \A w \in Workers :
    (pc[w] = "catch" /\ pc'[w] # "catch" /\ phase' # "crashed"
       /\ bak[item[w]] = NoFile /\ dst[item[w]] = OldFile) =>
      dst'[item[w]] = OldFile

C26_FailureBeforeBackup == [][C26_RollbackKeepsDestination]_vars

(***************************************************************************)
(* C27.  Startup recovery in the runner: when syncPlan starts while the    *)
(* journal at journalPath still has in-flight entries, those entries are   *)
(* rolled back and a journal with empty activeEntries is persisted before  *)
(* any copy transaction starts; such a journal is never overwritten        *)
(* without being recovered.                                                *)
(***************************************************************************)
hasActiveEntries(state) ==
  state.present /\ \E t \in Targets : state.activeEntries[t] # NotActive

C27_RecoversBeforeRunning ==
  (phase # "running" /\ phase' = "running" /\ hasActiveEntries(journalFile)) =>
    (phase = "recovering" /\ recoverTodo = <<>>)

C27_StartupRecovery == [][C27_RecoversBeforeRunning]_vars

(***************************************************************************)
(* C28.  Execution order: when execution is sequential (continueOnError    *)
(* off, or a pool of one worker), the plan items are started in ascending  *)
(* order of targetRelativePath across the whole plan, whatever their size  *)
(* class: an item starts only when no item that sorts before it is still   *)
(* waiting to start.                                                       *)
(***************************************************************************)
\* The position of a path in the plan, which is sorted by targetRelativePath.
planPosition(t) == CHOOSE i \in 1..Len(SchedulePlan) : SchedulePlan[i] = t

notStarted(q, l) == SeqToSet(q) \cup SeqToSet(l)

C28_StartsInOrder ==
  \A w \in Workers :
    (pc[w] = "idle" /\ pc'[w] = "begin" /\ (~continueOnError \/ workerCount = 1))
      => \A u \in notStarted(queue', largeTodo') :
           planPosition(item'[w]) < planPosition(u)

C28_ExecutionOrder == [][C28_StartsInOrder]_vars

(***************************************************************************)
(* C29.  Bounded parallelism: at every moment the number of transactions   *)
(* in flight is at most min(maxParallelSmallFiles, number of small pending *)
(* files), and at least one may be in flight (the large files run one at   *)
(* a time when no small file is pending); it is at most 1 when             *)
(* continueOnError is off; and a large file is never in flight together    *)
(* with another transaction.                                               *)
(***************************************************************************)
inFlight == {w \in Workers : pc[w] = "begin"}

\* smallFiles.length of the call.
smallCount == Len(smallFilesOf(SchedulePlan))

modeAndSizeBounds ==
  /\ ~continueOnError => Cardinality(inFlight) <= 1
  /\ \A w \in inFlight : item[w] \in largeFiles => inFlight = {w}

\* The statement as the specification words it: the bound is 0 for a plan
\* without small files.
C29_BoundIsPoolSize ==
  /\ Cardinality(inFlight) <= Min(maxParallelSmallFiles, smallCount)
  /\ modeAndSizeBounds

C29_BoundedParallelism ==
  /\ Cardinality(inFlight) <= Max(1, Min(maxParallelSmallFiles, smallCount))
  /\ modeAndSizeBounds

\* The pool is full: as many transactions in flight as the bound allows.
C29_Witness ==
  /\ Cardinality(inFlight) = Min(maxParallelSmallFiles, smallCount)
  /\ Cardinality(inFlight) = DEFAULT_MAX_PARALLEL_SMALL_FILES

(***************************************************************************)
(* C30.  Retry bound: each plan item is attempted at most retryCount + 1   *)
(* times (3 by default); a further attempt begins only when the previous   *)
(* attempt failed with an error whose code is in {EBUSY, EMFILE, ENFILE,   *)
(* EIO, ENOENT, ENOTCONN, EAGAIN, ETIMEDOUT}, the codes the program holds  *)
(* as recoverable; an error of any other code is followed by no further    *)
(* attempt and, unless the run is being cancelled, the item is marked      *)
(* failed; and a 'retrying' event is emitted before each re-attempt.       *)
(***************************************************************************)
RetryableCodes ==
  {"EBUSY", "EMFILE", "ENFILE", "EIO", "ENOENT", "ENOTCONN", "EAGAIN", "ETIMEDOUT"}

\* The attempts made so far on the item of worker w, in the next state.
attemptsMade(w) == attempt'[w] + 1

C30_AttemptStep ==
  /\ RECOVERABLE_FS_CODES = RetryableCodes
  /\ \A w \in Workers :
       /\ attemptsMade(w) <= DEFAULT_RETRY_COUNT + 1
       /\ retryEvents'[w] >= attempt'[w]
       /\ (pc'[w] = "begin" /\ pc[w] # "begin") =>
            \/ pc[w] = "idle" /\ attempt'[w] = 0
            \/ /\ pc[w] = "thrown" /\ error[w] \in RetryableCodes
               /\ attempt'[w] = attempt[w] + 1
               /\ retryEvents'[w] = retryEvents[w] + 1
       /\ (pc[w] = "thrown" /\ pc'[w] # "thrown" /\ error[w] \notin RetryableCodes) =>
            /\ pc'[w] # "begin"
            /\ ~cancelledOrRequested(error[w]) => item[w] \in SeqToSet(failed')

C30_RetryBound == [][C30_AttemptStep]_vars

\* Every attempt of an item has failed with a recoverable code: the item is
\* marked failed after retryCount + 1 attempts and retryCount events.
C30_Witness ==
  \E w \in Workers :
    /\ attempt[w] = DEFAULT_RETRY_COUNT /\ retryEvents[w] = DEFAULT_RETRY_COUNT
    /\ error[w] \in RetryableCodes
    /\ item[w] \in SeqToSet(failed)

(***************************************************************************)
(* C31.  Pause: while shouldPause() returns true no chunk is copied and no *)
(* attempt (the first of a transaction, or a retry) begins; flipping the   *)
(* flag moves no worker and changes no file, so the work goes on from      *)
(* where it stood; and a worker waiting in waitForUnpaused when cancel is  *)
(* set raises SYNC_CANCELLED at its next step, unless the open, read or   *)
(* write it had under way fails first.                                     *)
(***************************************************************************)
\* Worker w waits in waitForUnpaused: before an attempt, or before a chunk.
waitsForUnpaused(w) == Alive /\ pause /\ pc[w] \in {"begin", "copy"}

C31_PausedStep ==
  /\ pause =>
       \A w \in Workers :
         /\ ~(chunks'[w] > chunks[w])
         /\ ~(pc[w] = "begin" /\ pc'[w] = "preflight")
         /\ \A t \in Targets :
              (journalState.activeEntries[t] = NotActive)
                => (journalState'.activeEntries[t] = NotActive)
  /\ pause' # pause => UNCHANGED <<diskVars, runVars, workerVars>>
  /\ \A w \in Workers :
       (waitsForUnpaused(w) /\ cancel /\ pc'[w] # pc[w]) =>
          \/ /\ pc'[w] = "rejected"
             /\ abortError = "none" => abortError' = "SYNC_CANCELLED"
          \/ pc'[w] = "catch" /\ error'[w] = "SYNC_CANCELLED"
          \/ pc'[w] = "catch" /\ faults' > faults

C31_Pause == [][C31_PausedStep]_vars

\* The run is paused in the middle of a copy, and was paused before the
\* chunk that follows was copied.
C31_Witness ==
  \E w \in Workers :
    /\ pause /\ phase = "running" /\ ~cancel
    /\ pc[w] = "copy" /\ chunks[w] = 1

(***************************************************************************)
(* C32.  Journal-before-action ordering: a destination is renamed to its   *)
(* backup only when the journal file holds the active entry of the target; *)
(* a target is opened for writing only when the journal file holds the     *)
(* entry, with the backupPath if a backup was made; the history line of a  *)
(* target is appended only when the journal file holds its completion and  *)
(* no active entry; and the queued journal writes are made one at a time,  *)
(* first queued first.                                                     *)
(***************************************************************************)
C32_OrderedStep ==
  /\ \A t \in Targets :
       /\ (bak'[t] # bak[t] /\ bak'[t] # NoFile) =>
            journalFile.activeEntries[t] # NotActive
       /\ (dst'[t] = FullCopy /\ dst[t] # FullCopy) =>
            /\ journalFile.activeEntries[t] # NotActive
            /\ bak[t] # NoFile => journalFile.activeEntries[t] = BackupPathOf
       /\ logLines'[t] # logLines[t] =>
            /\ t \in journalFile.completedTargetPaths
            /\ journalFile.activeEntries[t] = NotActive
  /\ (phase = "running" /\ phase' = "running") =>
       /\ journalFile' # journalFile =>
            journalWriteChain # <<>> /\ journalWriteChain' = Tail(journalWriteChain)
       /\ journalWriteChain' # journalWriteChain =>
            \/ journalWriteChain # <<>> /\ journalWriteChain' = Tail(journalWriteChain)
            \/ \E w \in Workers : journalWriteChain' = Append(journalWriteChain, w)

C32_JournalBeforeAction == [][C32_OrderedStep]_vars

\* Two transactions run side by side, each with a journal write queued, and
\* one of them has made its backup.
C32_Witness ==
  /\ Len(journalWriteChain) = 2
  /\ \E t \in Targets : bak[t] # NoFile

(***************************************************************************)
(* C33.  Handles are released on every exit path: once syncPlan has        *)
(* settled, by success, cancel or error, no handle on a source, on a       *)
(* target or on the history log is open, also when the open of a target    *)
(* has failed after the source was opened.                                 *)
(***************************************************************************)
C33_HandlesReleased ==
  copyStep = "settled" =>
    sourceHandle = 0 /\ targetHandle = 0 /\ syncLogHandle = 0

(***************************************************************************)
(* C34.  History-log failures are fatal: once a write of a history line    *)
(* has failed, the run settles with SYNC_LOG_ERROR and with nothing else;  *)
(* the transaction whose line it was stays committed: its destination      *)
(* keeps the complete copy and it is not recorded as a failed item.        *)
(***************************************************************************)
logWriteFailed == syncLogWriteChain # "resolved"

C34_LogFailureIsFatal ==
  logWriteFailed =>
    /\ Settled => outcome = "SYNC_LOG_ERROR"
    /\ \A t \in journalState.completedTargetPaths :
         /\ dst[t] = FullCopy
         /\ t \notin SeqToSet(failed)

(***************************************************************************)
(* C35.  Malformed plan input is rejected: syncPlan rejects with           *)
(* INVALID_PLAN when the plan is not an array, and with INVALID_PLAN_ITEM  *)
(* when an item is not an object or lacks sourcePath or targetPath; a call *)
(* that goes on to sync works on every item it was given.                  *)
(***************************************************************************)
wellFormedItem(i) == i.isObject /\ i.sourcePath # "" /\ i.targetPath # ""

malformedPlan(input) ==
  \E k \in 1..Len(input.items) : ~wellFormedItem(input.items[k])

C35_MalformedPlanRejected ==
  validation.done =>
    /\ validation.code =
         IF ~planInput.isArray THEN "INVALID_PLAN"
         ELSE IF malformedPlan(planInput) THEN "INVALID_PLAN_ITEM"
         ELSE "none"
    /\ validation.code = "none" => validation.normalizedPlan = planInput.items

(***************************************************************************)
(* Determinism of the plan, checked under SpecPlan.                        *)
(***************************************************************************)
\* The loop "for (const lf of leftFiles)" run on a whole walkFiles result.
RECURSIVE resolveAll(_)
resolveAll(files) ==
  IF files = <<>> THEN <<>>
  ELSE bestAfter(resolveAll(SubSeq(files, 1, Len(files) - 1)), files[Len(files)])

\* The plan buildComparePlan returns for a walkFiles result and a destination.
planOf(files, right) == sortByTarget(planItems(resolveAll(files), right))

\* The same files, enumerated in another order.
sameTree(a, b) == SeqToSet(a) = SeqToSet(b) /\ Len(a) = Len(b)

\* Two of the enumerated files map to one target with the same version.
hasTie(files) ==
  \E i, j \in DOMAIN files :
    /\ i # j
    /\ targetRelativePathOf(files[i].relativePath) = targetRelativePathOf(files[j].relativePath)
    /\ versionOf(files[i].relativePath) = versionOf(files[j].relativePath)

\* C36: for the same pair of trees buildComparePlan returns the same plan
\* whatever the order in which the directory entries are enumerated: the plan
\* built from one enumeration is the plan of every other enumeration of the
\* same files, also when two sources tie on the maximum version of a target.
C36_PlanDeterminism ==
  comparePhase \in {"built", "done"} =>
    \A other \in Scans :
      sameTree(other, leftFiles) => planOf(other, rightSizeByRelativePath) = plan

(***************************************************************************)
(* Recovery on its own: the disk and the journal an interrupted run of the *)
(* pool leaves behind (every active entry that names a backup has its      *)
(* backup file, the target holds nothing or a part of the copy), and       *)
(* resumeSyncFromJournal called on it, stopped and called again.           *)
(***************************************************************************)
\* Calls of resumeSyncFromJournal beyond MaxResumes in one behaviour.
RepeatedResumes == 1

\* What an interrupted run leaves of one target: the journal's entry, the
\* backup file, the target, the file from before the run, and whether the
\* journal lists the target as completed.
InterruptedTargets ==
  {[entry |-> BackupPathOf, bak |-> OldFile, dst |-> d, orig |-> OldFile, done |-> FALSE] :
     d \in {NoFile, SourcePrefix(1), FullCopy}}
  \cup {[entry |-> NoBackupPath, bak |-> NoFile, dst |-> d, orig |-> NoFile, done |-> FALSE] :
     d \in {NoFile, SourcePrefix(1), FullCopy}}
  \cup {[entry |-> NotActive, bak |-> NoFile, dst |-> d, orig |-> d, done |-> FALSE] :
     d \in {NoFile, OldFile}}
  \cup {[entry |-> NotActive, bak |-> NoFile, dst |-> FullCopy, orig |-> d, done |-> TRUE] :
     d \in {NoFile, OldFile}}

InitRecovery ==
  /\ \E left \in [Targets -> InterruptedTargets] :
       /\ dst = [t \in Targets |-> left[t].dst]
       /\ bak = [t \in Targets |-> left[t].bak]
       /\ orig = [t \in Targets |-> left[t].orig]
       /\ journalFile = [createInitialJournalState EXCEPT
                           !.activeEntries = [t \in Targets |-> left[t].entry],
                           !.completedTargetPaths = {t \in Targets : left[t].done}]
  /\ phase = "crashed"
  /\ resumes = 0 - RepeatedResumes
  /\ continueOnError = TRUE
  /\ maxParallelSmallFiles = DEFAULT_MAX_PARALLEL_SMALL_FILES
  /\ targetPath = planOfCompare
  /\ largeFiles = {}
  /\ pause = FALSE
  /\ faults = 0
  /\ logLines = [t \in Targets |-> 0]
  /\ cancel = FALSE
  /\ journalState = JournalAbsent
  /\ queue = <<>>
  /\ total = 0
  /\ completed = 0
  /\ succeededFiles = <<>>
  /\ failed = <<>>
  /\ workerCount = 0
  /\ abortError = "none"
  /\ outcome = "none"
  /\ resumeFromJournal = FALSE
  /\ recoverTodo = <<>>
  /\ bytesTransferred = 0
  /\ syncLogWriteChain = "resolved"
  /\ partialResult = <<>>
  /\ largeTodo = <<>>
  /\ journalWriteChain = <<>>
  /\ pc = NoWorker
  /\ item = [w \in Workers |-> "-"]
  /\ attempt = [w \in Workers |-> 0]
  /\ retryEvents = [w \in Workers |-> 0]
  /\ backupPath = [w \in Workers |-> NoBackupPath]
  /\ error = [w \in Workers |-> "none"]
  /\ chunks = [w \in Workers |-> 0]
  /\ crashes = 0
  /\ prevCopied = 0
  /\ destAtStart = [t \in Targets |-> FALSE]
  /\ cancelAt = NoCancelAt
  /\ cancelSeen = FALSE
  /\ InitPlanner
  /\ InitControl

NextRecovery ==
  \/ ResumeStart
  \/ RecoverEntry
  \/ RecoverEntryFails
  \/ RecoverDoneEmpty
  \/ RecoverDoneSync
  \/ Crash

SpecRecovery == InitRecovery /\ [][NextRecovery]_vars

\* C37: recovery is idempotent and crash-safe. A step of
\* recoverActiveEntriesFromJournal on an entry whose backup was already moved
\* back to the target by an earlier application of the same journal (the
\* entry names a backup, the backup file is gone) leaves the target as that
\* application left it: a restored destination is never deleted.
C37_RepeatedStep ==
  (/\ phase = "recovering" /\ recoverTodo # <<>>
   /\ recoverTodo' # recoverTodo
   /\ journalState.activeEntries[Head(recoverTodo)] = BackupPathOf
   /\ bak[Head(recoverTodo)] = NoFile)
    => dst'[Head(recoverTodo)] = dst[Head(recoverTodo)]

C37_RecoveryIdempotent == [][C37_RepeatedStep]_vars

(***************************************************************************)
(* The counters of a run, checked under Spec.                              *)
(***************************************************************************)
\* A sequence without a repeated element.
noDuplicates(s) == \A i, j \in 1..Len(s) : s[i] = s[j] => i = j

\* completed and failed.length of a progress event or a result against total,
\* and the targets of succeededFiles.
countersConsistent ==
  /\ completed + Len(failed) <= total
  /\ noDuplicates(succeededFiles)

\* C38: in every progress event and every final or partial result of a run
\* completed never decreases, completed plus the failed count is at most total,
\* and each target appears at most once in succeededFiles, for every sequence
\* of successes, retries, failures and rollbacks.
C38_CounterStep ==
  (phase = "running" /\ phase' \in {"running", "settled"}) =>
     /\ completed' >= completed
     /\ countersConsistent'

C38_CounterConsistency == [][C38_CounterStep]_vars

(***************************************************************************)
(* The compare-token protocol, checked under SpecControl.                  *)
(***************************************************************************)
\* The 'sync-plan' requests that passed verifyCompareContextForSync and ran.
acceptedSyncs ==
  {r \in Requests : requests[r].kind = "sync"
                      /\ requests[r].pc \in {"syncing", "history", "done"}}

\* C39: a 'sync-plan' request is executed only against the context of the most
\* recent successful 'compare-trees' (its token is the last one issued, the
\* roots of the request are the compared roots) and consumes it; a context
\* only ever appears with a token never issued before; a 'compare-trees' whose
\* buildComparePlan throws leaves no context; so there are never more executed
\* syncs than issued tokens and no compare result is synced twice.
C39_TokenStep ==
  /\ \A r \in Requests :
       (requests[r].pc = "new" /\ requests'[r].pc = "syncing") =>
          /\ lastCompareContext # NoContext
          /\ lastCompareContext.token = nextNonce - 1
          /\ lastCompareContext.roots = requests'[r].roots
          /\ lastCompareContext' = NoContext
  /\ (lastCompareContext' # lastCompareContext /\ lastCompareContext' # NoContext) =>
          /\ lastCompareContext'.token = nextNonce
          /\ nextNonce' = nextNonce + 1
  /\ \A r \in Requests :
       (requests[r].pc = "comparing" /\ requests'[r].pc = "failed") =>
          lastCompareContext' = NoContext
  /\ Cardinality(acceptedSyncs') <= nextNonce' - 1

InitTermination == InitRetry \/ (InitPool /\ InitPlanner /\ InitControl)

EngineProgress ==
  \/ StartSync
  \/ \E w \in Workers : PoolStep(w)
  \/ SettleAbort \/ SettleSuccess

NextTermination == NextPool \/ TogglePause

SpecTermination ==
  InitTermination /\ [][NextTermination]_vars /\ SF_vars(EngineProgress)

====
